---- MODULE Spec2Model ----
(***************************************************************************)
(* Model of the ip-ns-lookup worker: the target classifier (IP_REGEX,      *)
(* isIPv4, isIPv6) and the DNS aggregator performDNSLookups.               *)
(*                                                                         *)
(* A JavaScript string is modelled as a sequence of one-character strings, *)
(* so that the regular expressions and the split/join/reverse calls of the *)
(* source act on characters, as they do in the code.                       *)
(***************************************************************************)
EXTENDS Integers, Sequences, FiniteSets, TLC

VARIABLES
    target,     \* the string handed to the classifier / to performDNSLookups
    verdict,    \* classifier run: the three test results, or "none" before it ran
    dnsTypes,   \* performDNSLookups: the requested record types, in order
    pc,         \* performDNSLookups: "idle", "mapping", "awaiting", "returned", "rejected"
    idx,        \* index of the next callback dnsTypes.map will invoke
    lookups,    \* per index of dnsTypes: where that async callback stands
    results,    \* the results object: a function from the keys set so far
    requests,   \* the DoH requests sent so far, in order: [i, name, type]
    upstream,   \* per index of dnsTypes: what the DoH service did with its request
    calls,      \* concurrent performDNSLookups calls: per call id, that call's frame
    heap,       \* the results objects those calls allocated, per object slot
    http,       \* the /api/analyze handler: its request, its progress, its response
    twin,       \* the performDNSLookups copy of part_000, run on the same inputs
    ui          \* the front-end page: stored history, analysis runs, what is shown

vars == <<target, verdict, dnsTypes, pc, idx, lookups, results, requests, upstream,
          calls, heap, http, twin, ui>>

----------------------------------------------------------------------------
(* Characters and regular-expression matching.                             *)
(* A regular expression is run as its position automaton: an operator      *)
(* takes the set P of positions the match may stand at (the index of the   *)
(* next unread character) and returns the set of positions it may stand at *)
(* after the sub-expression.  ^ starts at {1}; $ asks for Len(s) + 1.      *)

Digits == {"0", "1", "2", "3", "4", "5", "6", "7", "8", "9"}

HexChars == Digits \cup {"a", "b", "c", "d", "e", "f", "A", "B", "C", "D", "E", "F"}

\* one character out of the class C
Class(s, P, C) == {p + 1 : p \in {q \in P : q <= Len(s) /\ s[q] \in C}}

\* the literal character c
Lit(s, P, c) == Class(s, P, {c})

\* a range-blind octet, [0-9]{1,3}
OctetReAnyDigits(s, P) ==
    LET d1 == Class(s, P, Digits)
        d2 == Class(s, d1, Digits)
    IN  d1 \cup d2 \cup Class(s, d2, Digits)

\* (?:25[0-5]|2[0-4][0-9]|[01]?[0-9][0-9]?)
OctetRe(s, P) ==
    LET a1 == Class(s, Lit(s, Lit(s, P, "2"), "5"), {"0", "1", "2", "3", "4", "5"})
        a2 == Class(s, Class(s, Lit(s, P, "2"), {"0", "1", "2", "3", "4"}), Digits)
        o1 == P \cup Class(s, P, {"0", "1"})
        o2 == Class(s, o1, Digits)
        a3 == o2 \cup Class(s, o2, Digits)
    IN  a1 \cup a2 \cup a3

\* (?:octet\.){3}octet
OctetDot(s, P) == Lit(s, OctetRe(s, P), ".")

V4Re(s, P) == OctetRe(s, OctetDot(s, OctetDot(s, OctetDot(s, P))))

\* [0-9a-fA-F]{1,4}
HexRe(s, P) ==
    LET h1 == Class(s, P, HexChars)
        h2 == Class(s, h1, HexChars)
        h3 == Class(s, h2, HexChars)
        h4 == Class(s, h3, HexChars)
    IN  h1 \cup h2 \cup h3 \cup h4

\* a group-and-colon whose group may be empty, (?:[0-9a-fA-F]{0,4}:)
HexColonOptional(s, P) == Lit(s, P \cup HexRe(s, P), ":")

\* (?:[0-9a-fA-F]{1,4}:)
HexColon(s, P) == Lit(s, HexRe(s, P), ":")

\* (?:[0-9a-fA-F]{1,4}:){n}
RECURSIVE HexColonN(_, _, _)
HexColonN(s, P, n) == IF n = 0 THEN P ELSE HexColon(s, HexColonN(s, P, n - 1))

\* (?:[0-9a-fA-F]{1,4}:){lo,hi}
HexColonRange(s, P, lo, hi) == UNION {HexColonN(s, P, n) : n \in lo..hi}

\* a literal word, character by character
RECURSIVE Word(_, _, _)
Word(s, P, w) == IF w = <<>> THEN P ELSE Word(s, Lit(s, P, Head(w)), Tail(w))

\* ^ ... $ : the match started at position 1 may stand at the end of s
AtEnd(s, P) == (Len(s) + 1) \in P

\* isIPv4: the anchored dotted-quad expression
isIPv4(s) == AtEnd(s, V4Re(s, {1}))

\* IP_REGEX.test: the thirteen alternatives, in the order of the source
IP_REGEX_test(s) ==
    \/ AtEnd(s, V4Re(s, {1}))
    \/ AtEnd(s, HexRe(s, HexColonN(s, {1}, 7)))
    \/ AtEnd(s, HexRe(s, HexColonRange(s, Word(s, {1}, <<":", ":">>), 0, 6)))
    \/ AtEnd(s, HexRe(s, HexColonRange(s, Word(s, HexRe(s, {1}), <<":", ":">>), 0, 5)))
    \/ AtEnd(s, HexRe(s, HexColonRange(s, Lit(s, HexColonN(s, {1}, 2), ":"), 0, 4)))
    \/ AtEnd(s, HexRe(s, HexColonRange(s, Lit(s, HexColonN(s, {1}, 3), ":"), 0, 3)))
    \/ AtEnd(s, HexRe(s, HexColonRange(s, Lit(s, HexColonN(s, {1}, 4), ":"), 0, 2)))
    \/ AtEnd(s, HexRe(s, HexColonRange(s, Lit(s, HexColonN(s, {1}, 5), ":"), 0, 1)))
    \/ AtEnd(s, HexRe(s, Lit(s, HexColonN(s, {1}, 6), ":")))
    \/ LET c == Word(s, {1}, <<":", ":">>)
       IN  AtEnd(s, V4Re(s, c \cup Word(s, c, <<"f", "f", "f", "f", ":">>)))
    \/ AtEnd(s, V4Re(s, HexColonN(s, {1}, 6)))
    \/ AtEnd(s, Word(s, {1}, <<":", ":">>))
    \/ AtEnd(s, Word(s, {1}, <<":", ":", "1">>))

\* str.includes(':')
includesColon(s) == \E i \in 1..Len(s) : s[i] = ":"

\* isIPv6 as the copy in part_000 has it, without the isIPv4 test
isIPv6_part000(s) == includesColon(s) /\ IP_REGEX_test(s)

\* isIPv6 without its two guards
isIPv6RegexOnly(s) == IP_REGEX_test(s)

\* isIPv6
isIPv6(s) == includesColon(s) /\ ~isIPv4(s) /\ IP_REGEX_test(s)

----------------------------------------------------------------------------
(* String helpers of the reverse-DNS construction.                         *)

\* s.substring(i, i + Len(w)) = w
HasAt(s, i, w) == i + Len(w) - 1 <= Len(s) /\ \A k \in 1..Len(w) : s[i + k - 1] = w[k]

\* str.includes(w)
includes(s, w) == \E i \in 1..Len(s) : HasAt(s, i, w)

\* str.split(sep), sep non-empty: cut at each leftmost occurrence of sep
RECURSIVE SplitFrom(_, _, _, _)
SplitFrom(s, sep, i, cur) ==
    IF i > Len(s) THEN <<cur>>
    ELSE IF HasAt(s, i, sep) THEN <<cur>> \o SplitFrom(s, sep, i + Len(sep), <<>>)
    ELSE SplitFrom(s, sep, i + 1, Append(cur, s[i]))

split(s, sep) == SplitFrom(s, sep, 1, <<>>)

\* array.join(sep)
RECURSIVE join(_, _)
join(parts, sep) ==
    IF parts = <<>> THEN <<>>
    ELSE IF Len(parts) = 1 THEN parts[1]
    ELSE parts[1] \o sep \o join(Tail(parts), sep)

\* array.reverse()
reverse(a) == [i \in 1..Len(a) |-> a[Len(a) + 1 - i]]

\* a pad of one zero instead of a pad to four digits
padStartOnce(h) == IF Len(h) >= 4 THEN h ELSE <<"0">> \o h

\* h.padStart(4, '0')
padStart4(h) == IF Len(h) >= 4 THEN h ELSE [i \in 1..(4 - Len(h)) |-> "0"] \o h

\* ip.replace(/:/g, '')
RECURSIVE removeColons(_)
removeColons(s) ==
    IF s = <<>> THEN <<>>
    ELSE IF Head(s) = ":" THEN removeColons(Tail(s))
    ELSE <<Head(s)>> \o removeColons(Tail(s))

\* the value a call has when Array(missing) throws RangeError
RangeError == <<"RangeError">>

Zeros4 == <<"0", "0", "0", "0">>

\* the octets left in their order
ipv4ToReverseDNSUnreversed(ip) ==
    join(split(ip, <<".">>), <<".">>)
        \o <<".", "i", "n", "-", "a", "d", "d", "r", ".", "a", "r", "p", "a">>

\* ipv4ToReverseDNS
ipv4ToReverseDNS(ip) ==
    join(reverse(split(ip, <<".">>)), <<".">>)
        \o <<".", "i", "n", "-", "a", "d", "d", "r", ".", "a", "r", "p", "a">>

\* expandIPv6
expandIPv6(ip) ==
    IF ip = <<":", ":">>
    THEN join([i \in 1..8 |-> Zeros4], <<":">>)
    ELSE IF ip = <<":", ":", "1">>
    THEN join([i \in 1..8 |-> IF i = 8 THEN <<"0", "0", "0", "1">> ELSE Zeros4], <<":">>)
    ELSE LET sides == split(ip, <<":", ":">>)
         IN  IF Len(sides) = 2
             THEN LET left == IF sides[1] # <<>> THEN split(sides[1], <<":">>) ELSE <<>>
                      right == IF sides[2] # <<>> THEN split(sides[2], <<":">>) ELSE <<>>
                      missing == 8 - Len(left) - Len(right)
                  IN  IF missing < 0 THEN RangeError
                      ELSE LET middle == [i \in 1..missing |-> Zeros4]
                               full == left \o middle \o right
                           IN  join([i \in 1..Len(full) |-> padStart4(full[i])], <<":">>)
             ELSE LET segs == split(ip, <<":">>)
                  IN  join([i \in 1..Len(segs) |-> padStart4(segs[i])], <<":">>)

\* ipv6ToReverseDNS
ipv6ToReverseDNS(ip) ==
    LET expandedIP == IF includes(ip, <<":", ":">>) THEN expandIPv6(ip) ELSE ip
    IN  IF expandedIP = RangeError THEN RangeError
        ELSE LET chars == removeColons(expandedIP)
                 nibbles == join([i \in 1..Len(chars) |-> <<reverse(chars)[i]>>], <<".">>)
             IN  nibbles \o <<".", "i", "p", "6", ".", "a", "r", "p", "a">>

----------------------------------------------------------------------------
(* performDNSLookups(target, dnsTypes).                                    *)
(*                                                                         *)
(* dnsTypes.map(async (type) => ...) invokes the callbacks one after the   *)
(* other, each running synchronously up to its first await (the fetch) or  *)
(* to its return; pc = "mapping" while that loop runs.  A callback then    *)
(* stands at "fetching" (await fetch), "parsing" (await res.json()), or    *)
(* has settled: "skipped" (type not applicable), "failed" (empty entry     *)
(* after a failure), "ok" (answers stored), "rejected" (its promise        *)
(* rejected).                                                              *)

DNS_TYPES == <<"A", "AAAA", "MX", "TXT", "NS", "CNAME", "SOA", "PTR">>

Types == {DNS_TYPES[i] : i \in 1..Len(DNS_TYPES)}

\* const results = {}
EmptyResults == [k \in {} |-> <<>>]

\* every callback writing under the type the map ended on
setResultLastKey(res, type, value) ==
    [k \in (DOMAIN res) \cup {dnsTypes[Len(dnsTypes)]} |->
        IF k = dnsTypes[Len(dnsTypes)] THEN value ELSE res[k]]

\* results[type] = value
setResult(res, type, value) ==
    [k \in (DOMAIN res) \cup {type} |-> IF k = type THEN value ELSE res[k]]

\* an empty entry that is never stored
setEmptyDropped(res, type) == res

\* results[type] = []
setEmpty(res, type) == setResult(res, type, <<>>)

\* const isIp = IP_REGEX.test(target)
isIp(t) == IP_REGEX_test(t)

\* PTR never skipped
skipPTRNever(t, type) == FALSE

\* type === "PTR" && !isIp : PTR only makes sense for IP addresses
skipPTR(t, type) == type = "PTR" /\ ~isIp(t)

\* the skip list without SOA
skipForIpNoSOA(t, type) ==
    type # "PTR" /\ IP_REGEX_test(t) /\ type \in {"A", "AAAA", "MX", "CNAME", "NS"}

\* else if (isIp && (type === "A" || ... || type === "SOA")) : skipped for IPs
skipForIp(t, type) ==
    type # "PTR" /\ isIp(t) /\ type \in {"A", "AAAA", "MX", "CNAME", "NS", "SOA"}

\* let queryName = target, replaced by the reverse-DNS name for PTR
queryName(t, type) ==
    IF type = "PTR"
    THEN IF isIPv4(t) THEN ipv4ToReverseDNS(t)
         ELSE IF isIPv6(t) THEN ipv6ToReverseDNS(t)
         ELSE t
    ELSE t

\* a catch that resets the whole results object
catchWipes(res, type) ==
    [st |-> "failed", res |-> [k \in (DOMAIN res) \cup {type} |-> <<>>]]

\* catch (e) { results[type] = []; } : the callback's promise fulfils
catch(res, type) == [st |-> "failed", res |-> setEmpty(res, type)]

\* a non-success status answered by sending the request again
notOkRetries(res, type, reqs, rq) == [st |-> "fetching", res |-> res, reqs |-> Append(reqs, rq)]

\* if (!res.ok) { results[type] = []; return; }
notOk(res, type, reqs, rq) == [st |-> "failed", res |-> setEmpty(res, type), reqs |-> reqs]

\* only the first record of the Answer list kept
storeAnswerFirstOnly(res, type, body) ==
    [k \in (DOMAIN res) \cup {type} |->
        IF k # type THEN res[k]
        ELSE IF body.kind = "answer" THEN <<body.answer[1]>> ELSE <<>>]

\* results[type] = data.Answer || []
storeAnswer(res, type, body) ==
    setResult(res, type, IF body.kind = "answer" THEN body.answer ELSE <<>>)

\* responses handled while map is still invoking callbacks
EventLoopAlwaysFree == TRUE

\* control is back in the event loop: the synchronous dnsTypes.map(...) is over
EventLoopFree == pc # "mapping"

Settled == {"skipped", "failed", "ok"}

\* a join that is over with the first settled callback
AnySettled == \E i \in 1..Len(dnsTypes) : lookups[i] \in {"skipped", "failed", "ok"}

\* await Promise.all(...): fulfils when every callback's promise has fulfilled
AllSettled == \A i \in 1..Len(dnsTypes) : lookups[i] \in Settled

----------------------------------------------------------------------------
(* Inputs of the aggregator and the behaviours of the DoH service.         *)

MaxTypes == 3

\* the requested lists: DNS_TYPES (the list every caller passes) or a part of
\* it, as the variants with fewer types pass, cut at MaxTypes entries
TypeLists ==
    {[i \in 1..Len(f) |-> DNS_TYPES[f[i]]] :
        f \in {g \in UNION {[1..n -> 1..Len(DNS_TYPES)] : n \in 0..MaxTypes} :
                  \A i, j \in 1..Len(g) : i < j => g[i] < g[j]}}

\* "1.2.3.4", "::1", "1:2::3", "a.io"
AggTargets ==
    { <<"1", ".", "2", ".", "3", ".", "4">>,
      <<":", ":", "1">>,
      <<"1", ":", "2", ":", ":", "3">>,
      <<"a", ".", "i", "o">> }

\* the Answer arrays a DoH response may carry
AnswerLists == {<<"r1">>, <<"r1", "r2">>}

Outcome(kind, answer) == [kind |-> kind, answer |-> answer]

NoOutcome == Outcome("none", <<>>)

\* the bodies res.json() may yield: {Answer: [...]}, an object without Answer, null
Bodies ==
    {Outcome("answer", a) : a \in AnswerLists}
        \cup {Outcome("noAnswer", <<>>), Outcome("null", <<>>)}

\* exp, exp2 and ptr hold the results of expandIPv6, of expandIPv6 applied to
\* that result, and of the reverse-DNS construction; <<>> before they are run
NoVerdict ==
    [ran |-> FALSE, v4 |-> FALSE, v6 |-> FALSE, v6p0 |-> FALSE, ip |-> FALSE,
     exp |-> <<>>, exp2 |-> <<>>, ptr |-> <<>>]

\* the calls of performDNSLookups that may be in flight together
CallIds == {1, 2}

\* the frame of a call that has not been made; obj names the results object
\* the call allocated (0: none yet)
NoFrame ==
    [pc |-> "idle", target |-> <<>>, types |-> <<>>, lookups |-> <<>>,
     up |-> <<>>, obj |-> 0]

NoCalls == [c \in CallIds |-> NoFrame]

\* one object slot per call, each holding {} until its call allocates it
NoHeap == [o \in CallIds |-> EmptyResults]

\* one results object at module level, shared by every call
resultsSlotShared(c) == 1

\* const results = {} inside the function body: a fresh object per call
resultsSlot(c) == c

\* the part_000 copy before its call: where its callbacks stand, its results
\* object, the DoH requests it sent
NoTwin == [lookups |-> <<>>, results |-> EmptyResults, requests |-> <<>>]

\* history.slice(0, 20)
HistoryCap == 20

\* the page as it is loaded with an empty localStorage; a query string is
\* named by a number, 0 naming the empty string.  history is the array
\* stored under HISTORY_KEY; clock counts the saves, lastSave[q] is the
\* count at the last save of q since the history was cleared, saved the
\* query of the last saveToHistory call, base the count when the page opened
\* (the four are kept where the history is checked on its own).
\* copy names the copy of the front-end, input is input.value, myip the
\* position of loadUserIP, runs the handleAnalyze calls that got past the
\* empty-target return, in the order they started.  btnDisabled is
\* btn.disabled; btnLoader, errorMsg and resultsDiv are TRUE while the
\* element is visible (its class list does not hold 'hidden'); errorOf is the
\* run whose message errorMsg.textContent holds, rendered the run whose data
\* renderData drew last, last the response handled last and its run
NoPage ==
    [history |-> <<>>, clock |-> 0, lastSave |-> [q \in {} |-> 0], saved |-> 0,
     base |-> 0,
     copy |-> "", input |-> 0, myip |-> "none", runs |-> <<>>,
     btnDisabled |-> FALSE, btnLoader |-> FALSE,
     errorMsg |-> FALSE, errorOf |-> 0, resultsDiv |-> FALSE, rendered |-> 0,
     last |-> [run |-> 0, kind |-> "none", hasDns |-> FALSE, info |-> ""]]

\* the response of the handler: status 0 while none has been sent; keys is
\* the set of keys of the JSON body
NoResponse == [status |-> 0, keys |-> {}, error |-> "", dns |-> EmptyResults]

\* the handler before any request has arrived; variant names the copy of the
\* worker that serves the request, world the behaviour of the DoH service,
\* ext the requests to the external services, per service
NoRequest ==
    [pc |-> "idle", variant |-> "", target |-> <<>>, world |-> <<>>,
     ext |-> <<>>, resp |-> NoResponse]

----------------------------------------------------------------------------
(* The steps of one performDNSLookups call.                                *)

Init ==
    /\ target = <<>>
    /\ verdict = NoVerdict
    /\ dnsTypes = <<>>
    /\ pc = "idle"
    /\ idx = 1
    /\ lookups = <<>>
    /\ results = EmptyResults
    /\ requests = <<>>
    /\ upstream = <<>>
    /\ calls = NoCalls
    /\ heap = NoHeap
    /\ http = NoRequest
    /\ twin = NoTwin
    /\ ui = NoPage

\* performDNSLookups(t, ts) is called: results = {}, isIp is computed, map starts
StartLookups(t, ts) ==
    /\ pc = "idle"
    /\ target' = t
    /\ dnsTypes' = ts
    /\ results' = EmptyResults
    /\ requests' = <<>>
    /\ lookups' = [i \in 1..Len(ts) |-> "new"]
    /\ upstream' = [i \in 1..Len(ts) |-> NoOutcome]
    /\ idx' = 1
    /\ pc' = IF ts = <<>> THEN "awaiting" ELSE "mapping"

\* a direct call of performDNSLookups, outside any handler
Call(t, ts) ==
    /\ StartLookups(t, ts)
    /\ UNCHANGED <<verdict, calls, heap, http>>
    /\ UNCHANGED <<twin, ui>>

\* map invokes the callback of dnsTypes[i]; it runs up to its fetch or its return
InvokeStep(i) ==
    /\ pc = "mapping"
    /\ idx = i
    /\ i \in 1..Len(dnsTypes)
    /\ LET type == dnsTypes[i]
           name == queryName(target, type)
       IN  IF skipPTR(target, type) \/ skipForIp(target, type)
           THEN /\ results' = setEmpty(results, type)
                /\ lookups' = [lookups EXCEPT ![i] = "skipped"]
                /\ UNCHANGED requests
           ELSE IF name = RangeError
           THEN /\ results' = catch(results, type).res
                /\ lookups' = [lookups EXCEPT ![i] = catch(results, type).st]
                /\ UNCHANGED requests
           ELSE /\ requests' = Append(requests, [i |-> i, name |-> name, type |-> type])
                /\ lookups' = [lookups EXCEPT ![i] = "fetching"]
                /\ UNCHANGED results
    /\ idx' = i + 1
    /\ pc' = IF i = Len(dnsTypes) THEN "awaiting" ELSE "mapping"
    /\ UNCHANGED <<target, verdict, dnsTypes, upstream>>

Invoke(i) ==
    /\ InvokeStep(i)
    /\ UNCHANGED <<calls, heap, http, twin, ui>>

\* the fetch of callback i rejects (network error): caught
FetchRejectsStep(i) ==
    /\ EventLoopFree
    /\ i \in 1..Len(dnsTypes)
    /\ lookups[i] = "fetching"
    /\ upstream' = [upstream EXCEPT ![i] = Outcome("neterr", <<>>)]
    /\ results' = catch(results, dnsTypes[i]).res
    /\ lookups' = [lookups EXCEPT ![i] = catch(results, dnsTypes[i]).st]
    /\ UNCHANGED <<target, verdict, dnsTypes, pc, idx, requests>>

FetchRejects(i) ==
    /\ FetchRejectsStep(i)
    /\ UNCHANGED <<calls, heap, http, twin, ui>>

\* the fetch of callback i resolves with a non-success status
FetchNotOkStep(i) ==
    /\ EventLoopFree
    /\ i \in 1..Len(dnsTypes)
    /\ lookups[i] = "fetching"
    /\ upstream' = [upstream EXCEPT ![i] = Outcome("status", <<>>)]
    /\ LET rq == [i |-> i, name |-> queryName(target, dnsTypes[i]), type |-> dnsTypes[i]]
           r == notOk(results, dnsTypes[i], requests, rq)
       IN  /\ results' = r.res
           /\ requests' = r.reqs
           /\ lookups' = [lookups EXCEPT ![i] = r.st]
    /\ UNCHANGED <<target, verdict, dnsTypes, pc, idx>>

FetchNotOk(i) ==
    /\ FetchNotOkStep(i)
    /\ UNCHANGED <<calls, heap, http, twin, ui>>

\* the fetch of callback i resolves with res.ok: the callback awaits res.json()
FetchOkStep(i) ==
    /\ EventLoopFree
    /\ i \in 1..Len(dnsTypes)
    /\ lookups[i] = "fetching"
    /\ lookups' = [lookups EXCEPT ![i] = "parsing"]
    /\ UNCHANGED <<target, verdict, dnsTypes, pc, idx, results, requests, upstream>>

FetchOk(i) ==
    /\ FetchOkStep(i)
    /\ UNCHANGED <<calls, heap, http, twin, ui>>

\* res.json() rejects (malformed JSON): caught
JsonRejectsStep(i) ==
    /\ EventLoopFree
    /\ i \in 1..Len(dnsTypes)
    /\ lookups[i] = "parsing"
    /\ upstream' = [upstream EXCEPT ![i] = Outcome("badjson", <<>>)]
    /\ results' = catch(results, dnsTypes[i]).res
    /\ lookups' = [lookups EXCEPT ![i] = catch(results, dnsTypes[i]).st]
    /\ UNCHANGED <<target, verdict, dnsTypes, pc, idx, requests>>

JsonRejects(i) ==
    /\ JsonRejectsStep(i)
    /\ UNCHANGED <<calls, heap, http, twin, ui>>

\* res.json() resolves with body; data.Answer throws TypeError when data is null
JsonResolvesStep(i, body) ==
    /\ EventLoopFree
    /\ i \in 1..Len(dnsTypes)
    /\ lookups[i] = "parsing"
    /\ upstream' = [upstream EXCEPT ![i] = body]
    /\ IF body.kind = "null"
       THEN /\ results' = catch(results, dnsTypes[i]).res
            /\ lookups' = [lookups EXCEPT ![i] = catch(results, dnsTypes[i]).st]
       ELSE /\ results' = storeAnswer(results, dnsTypes[i], body)
            /\ lookups' = [lookups EXCEPT ![i] = "ok"]
    /\ UNCHANGED <<target, verdict, dnsTypes, pc, idx, requests>>

JsonResolves(i, body) ==
    /\ JsonResolvesStep(i, body)
    /\ UNCHANGED <<calls, heap, http, twin, ui>>

\* await Promise.all(...) is over: return results, or reject with the first rejection
ReturnStep ==
    /\ pc = "awaiting"
    /\ AllSettled \/ \E i \in 1..Len(dnsTypes) : lookups[i] = "rejected"
    /\ pc' = IF \E i \in 1..Len(dnsTypes) : lookups[i] = "rejected"
             THEN "rejected" ELSE "returned"
    /\ UNCHANGED <<target, verdict, dnsTypes, idx, lookups, results, requests, upstream>>

Return ==
    /\ ReturnStep
    /\ UNCHANGED <<calls, heap, http, twin, ui>>

Next ==
    \/ \E t \in AggTargets, ts \in TypeLists : Call(t, ts)
    \/ \E i \in 1..MaxTypes : Invoke(i)
    \/ \E i \in 1..MaxTypes : FetchRejects(i)
    \/ \E i \in 1..MaxTypes : FetchNotOk(i)
    \/ \E i \in 1..MaxTypes : FetchOk(i)
    \/ \E i \in 1..MaxTypes : JsonRejects(i)
    \/ \E i \in 1..MaxTypes, body \in Bodies : JsonResolves(i, body)
    \/ Return

Spec == Init /\ [][Next]_vars

----------------------------------------------------------------------------
(* The classifier on its own: a string is drawn, then the three tests of   *)
(* the source (isIPv4, isIPv6, IP_REGEX.test) are applied to it.           *)

MaxGroups == 4

MaxSide == 8

\* octets within and out of range, with leading zeros, with a letter
OctetToks ==
    { <<"0">>, <<"0", "0">>, <<"0", "1", "0">>, <<"2", "5", "5">>, <<"2", "5", "6">>,
      <<"1", "a">> }

\* three to MaxGroups dot-separated groups
DottedInputs ==
    {join(q, <<".">>) : q \in UNION {[1..n -> OctetToks] : n \in 3..MaxGroups}}

\* every string of one to three digits, and some of four
DigitStrings ==
    UNION {[1..n -> Digits] : n \in 1..3}
        \cup {<<"0", "2", "5", "5">>, <<"1", "2", "3", "4">>, <<"0", "0", "0", "0">>}

\* each of them as the first and as the last octet
OctetInputs ==
    {o \o <<".", "1", ".", "1", ".", "1">> : o \in DigitStrings}
        \cup {<<"1", ".", "1", ".", "1", ".">> \o o : o \in DigitStrings}

\* a valid address with a character before or after it, or a doubled dot
JunkInputs ==
    LET base == <<"1", ".", "2", ".", "3", ".", "4">>
    IN  {<<c>> \o base : c \in {" ", ".", ":", "0", "a", "-"}}
            \cup {base \o <<c>> : c \in {" ", ".", ":", "0", "a", "-"}}
            \cup {<<"1", ".", ".", "2", ".", "3", ".", "4">>, <<"a", ".", "i", "o">>}

HexToks == {<<"1">>, <<"a", "b">>, <<"F", "F", "F", "F">>, <<"f", "f", "f", "f">>, <<"g">>}

LastToks ==
    { <<"1">>, <<"F", "F", "F", "F">>, <<"g">>, <<"1", "2", "3", "4", "5">>,
      <<"1", ".", "2", ".", "3", ".", "4">>, <<"2", "5", "6", ".", "1", ".", "1", ".", "1">> }

\* l groups g, then ":", "::" or ":::", then r groups: r - 1 times g and a last one
ColonInput(l, mid, r, g, last) ==
    join([i \in 1..l |-> g], <<":">>) \o mid
        \o join([i \in 1..r |-> IF i = r THEN last ELSE g], <<":">>)

ColonInputs ==
    {ColonInput(l, mid, r, g, last) :
        l \in 0..MaxSide, r \in 0..MaxSide,
        mid \in {<<":">>, <<":", ":">>, <<":", ":", ":">>},
        g \in HexToks, last \in LastToks}

\* up to two groups, "::", up to two groups, "::", up to two groups
GroupRuns ==
    {join(q, <<":">>) : q \in UNION {[1..n -> {<<"1">>, <<"a", "b">>}] : n \in 0..2}}

TwoCompressionInputs ==
    {a \o <<":", ":">> \o b \o <<":", ":">> \o c : a \in GroupRuns, b \in GroupRuns, c \in GroupRuns}

ClassifierInputs ==
    DottedInputs \cup OctetInputs \cup JunkInputs \cup ColonInputs \cup TwoCompressionInputs

InitClassify ==
    /\ target \in ClassifierInputs
    /\ verdict = NoVerdict
    /\ dnsTypes = <<>>
    /\ pc = "idle"
    /\ idx = 1
    /\ lookups = <<>>
    /\ results = EmptyResults
    /\ requests = <<>>
    /\ upstream = <<>>
    /\ calls = NoCalls
    /\ heap = NoHeap
    /\ http = NoRequest
    /\ twin = NoTwin
    /\ ui = NoPage

\* the three tests performDNSLookups and the handlers apply to the target
Classify ==
    /\ ~verdict.ran
    /\ verdict' = [verdict EXCEPT !.ran = TRUE, !.v4 = isIPv4(target),
                                  !.v6 = isIPv6(target),
                                  !.v6p0 = isIPv6_part000(target),
                                  !.ip = IP_REGEX_test(target)]
    /\ UNCHANGED <<target, dnsTypes, pc, idx, lookups, results, requests, upstream>>
    /\ UNCHANGED <<calls, heap, http>>
    /\ UNCHANGED <<twin, ui>>

\* expandIPv6(target), for a target the classifier accepted as IPv6
Expand ==
    /\ verdict.ran /\ verdict.v6
    /\ verdict.exp = <<>>
    /\ verdict' = [verdict EXCEPT !.exp = expandIPv6(target)]
    /\ UNCHANGED <<target, dnsTypes, pc, idx, lookups, results, requests, upstream>>
    /\ UNCHANGED <<calls, heap, http>>
    /\ UNCHANGED <<twin, ui>>

\* expandIPv6 applied to its own result
ExpandAgain ==
    /\ verdict.exp # <<>>
    /\ verdict.exp2 = <<>>
    /\ verdict' = [verdict EXCEPT !.exp2 = expandIPv6(verdict.exp)]
    /\ UNCHANGED <<target, dnsTypes, pc, idx, lookups, results, requests, upstream>>
    /\ UNCHANGED <<calls, heap, http>>
    /\ UNCHANGED <<twin, ui>>

\* the reverse-DNS name of an accepted address, as performDNSLookups picks it
ReverseDNS ==
    /\ verdict.ran /\ verdict.ip
    /\ verdict.ptr = <<>>
    /\ verdict' = [verdict EXCEPT !.ptr =
                      IF isIPv4(target) THEN ipv4ToReverseDNS(target)
                      ELSE IF isIPv6(target) THEN ipv6ToReverseDNS(target)
                      ELSE target]
    /\ UNCHANGED <<target, dnsTypes, pc, idx, lookups, results, requests, upstream>>
    /\ UNCHANGED <<calls, heap, http>>
    /\ UNCHANGED <<twin, ui>>

NextClassify == Classify \/ Expand \/ ExpandAgain \/ ReverseDNS

SpecClassify == InitClassify /\ [][NextClassify]_vars

----------------------------------------------------------------------------
(* Several performDNSLookups calls in flight in one isolate.  JavaScript   *)
(* runs each call's synchronous part (up to the await of Promise.all) to   *)
(* completion, so StartCall is one step; every response is its own step,   *)
(* and so is every body that res.json() delivers.                          *)

MaxCallTypes == 2

\* the lists the calls pass: parts of <<"A", "TXT", "PTR">>, in that order
CallTypeLists ==
    {ts \in TypeLists :
        /\ Len(ts) <= MaxCallTypes
        /\ \A i \in 1..Len(ts) : ts[i] \in {"A", "TXT", "PTR"}}

\* "a.io", "1.2.3.4"
CallTargets == { <<"a", ".", "i", "o">>, <<"1", ".", "2", ".", "3", ".", "4">> }

\* what the DoH service does with one request of a call
CallOutcomes ==
    {Outcome("neterr", <<>>), Outcome("status", <<>>), Outcome("badjson", <<>>),
     Outcome("noAnswer", <<>>), Outcome("answer", <<"r1">>)}

\* where callback i stands once dnsTypes.map has invoked it
afterMap(t, type) ==
    IF skipPTR(t, type) \/ skipForIp(t, type) THEN "skipped"
    ELSE IF queryName(t, type) = RangeError THEN "failed"
    ELSE "fetching"

\* the results object after map has invoked the callbacks i..Len(ts)
RECURSIVE mapSync(_, _, _, _)
mapSync(t, ts, i, res) ==
    IF i > Len(ts) THEN res
    ELSE mapSync(t, ts, i + 1,
                 IF afterMap(t, ts[i]) = "skipped" THEN setEmpty(res, ts[i])
                 ELSE IF afterMap(t, ts[i]) = "failed" THEN catch(res, ts[i]).res
                 ELSE res)

\* call c is made: it allocates its results object and runs dnsTypes.map
StartCall(c, t, ts) ==
    /\ calls[c].pc = "idle"
    /\ LET o == resultsSlot(c)
       IN  /\ calls' = [calls EXCEPT ![c] =
                          [pc |-> "awaiting", target |-> t, types |-> ts,
                           lookups |-> [i \in 1..Len(ts) |-> afterMap(t, ts[i])],
                           up |-> [i \in 1..Len(ts) |-> NoOutcome],
                           obj |-> o]]
           /\ heap' = [heap EXCEPT ![o] = mapSync(t, ts, 1, EmptyResults)]
    /\ UNCHANGED <<target, verdict, dnsTypes, pc, idx, lookups, results, requests,
                   upstream, http>>
    /\ UNCHANGED <<twin, ui>>

\* the fetch of callback i of call c rejects, or resolves with a response
\* that is not ok: the callback stores the empty list and ends
CallFetchFails(c, i, out) ==
    /\ calls[c].pc = "awaiting"
    /\ i \in 1..Len(calls[c].types)
    /\ calls[c].lookups[i] = "fetching"
    /\ out.kind \in {"neterr", "status"}
    /\ LET o == resultsSlot(c)
           type == calls[c].types[i]
           res == IF out.kind = "neterr" THEN catch(heap[o], type).res
                  ELSE notOk(heap[o], type, <<>>, <<>>).res
       IN  /\ heap' = [heap EXCEPT ![o] = res]
           /\ calls' = [calls EXCEPT ![c].lookups[i] = "failed", ![c].up[i] = out]
    /\ UNCHANGED <<target, verdict, dnsTypes, pc, idx, lookups, results, requests,
                   upstream, http>>
    /\ UNCHANGED <<twin, ui>>

\* the fetch of callback i of call c resolves with an ok response: the
\* callback calls res.json() and is back in the event loop at its await
CallFetchOk(c, i) ==
    /\ calls[c].pc = "awaiting"
    /\ i \in 1..Len(calls[c].types)
    /\ calls[c].lookups[i] = "fetching"
    /\ calls' = [calls EXCEPT ![c].lookups[i] = "parsing"]
    /\ UNCHANGED <<target, verdict, dnsTypes, pc, idx, lookups, results, requests,
                   upstream, heap, http>>
    /\ UNCHANGED <<twin, ui>>

\* res.json() of callback i of call c settles: a body is stored, a
\* rejection or a null body ends in the catch
CallJsonSettles(c, i, out) ==
    /\ calls[c].pc = "awaiting"
    /\ i \in 1..Len(calls[c].types)
    /\ calls[c].lookups[i] = "parsing"
    /\ out.kind \in {"answer", "noAnswer", "badjson", "null"}
    /\ LET o == resultsSlot(c)
           type == calls[c].types[i]
           res == IF out.kind \in {"badjson", "null"}
                  THEN catch(heap[o], type).res
                  ELSE storeAnswer(heap[o], type, out)
           st == IF out.kind \in {"answer", "noAnswer"} THEN "ok" ELSE "failed"
       IN  /\ heap' = [heap EXCEPT ![o] = res]
           /\ calls' = [calls EXCEPT ![c].lookups[i] = st, ![c].up[i] = out]
    /\ UNCHANGED <<target, verdict, dnsTypes, pc, idx, lookups, results, requests,
                   upstream, http>>
    /\ UNCHANGED <<twin, ui>>

\* await Promise.all(...) of call c is over: return results
ReturnCall(c) ==
    /\ calls[c].pc = "awaiting"
    /\ \A i \in 1..Len(calls[c].types) : calls[c].lookups[i] \in Settled
    /\ calls' = [calls EXCEPT ![c].pc = "returned"]
    /\ UNCHANGED <<target, verdict, dnsTypes, pc, idx, lookups, results, requests,
                   upstream, heap, http>>
    /\ UNCHANGED <<twin, ui>>

NextCalls ==
    \/ \E c \in CallIds, t \in CallTargets, ts \in CallTypeLists : StartCall(c, t, ts)
    \/ \E c \in CallIds, i \in 1..MaxTypes, out \in CallOutcomes : CallFetchFails(c, i, out)
    \/ \E c \in CallIds, i \in 1..MaxTypes : CallFetchOk(c, i)
    \/ \E c \in CallIds, i \in 1..MaxTypes, out \in CallOutcomes : CallJsonSettles(c, i, out)
    \/ \E c \in CallIds : ReturnCall(c)

SpecCalls == Init /\ [][NextCalls]_vars

----------------------------------------------------------------------------
(* The GET /api/analyze handler, in the two copies of the worker:          *)
(* src/src/worker.js ("worker") and src/unnamed/part_000 ("part_000").     *)
(* The handler validates the target, calls performDNSLookups with          *)
(* DNS_TYPES, asks the external services and answers with one JSON body.   *)

Letters ==
    {"a", "b", "c", "d", "e", "f", "g", "h", "i", "j", "k", "l", "m",
     "n", "o", "p", "q", "r", "s", "t", "u", "v", "w", "x", "y", "z",
     "A", "B", "C", "D", "E", "F", "G", "H", "I", "J", "K", "L", "M",
     "N", "O", "P", "Q", "R", "S", "T", "U", "V", "W", "X", "Y", "Z"}

\* [C]* : any number of characters out of the class C
RECURSIVE ClassStar(_, _, _)
ClassStar(s, P, C) ==
    IF Class(s, P, C) \subseteq P THEN P ELSE ClassStar(s, P \cup Class(s, P, C), C)

\* [C]+
ClassPlus(s, P, C) == ClassStar(s, Class(s, P, C), C)

\* the validation without its end anchor: a valid first character is enough
validTargetUnanchored(s) == ClassPlus(s, {1}, Letters \cup Digits \cup {".", ":", "-"}) # {}

\* /^[a-zA-Z0-9.:-]+$/.test(target), the validation of worker.js
validTarget(s) == AtEnd(s, ClassPlus(s, {1}, Letters \cup Digits \cup {".", ":", "-"}))

\* /^[a-zA-Z0-9.-]+$/.test(target), the validation of part_000
validTarget_part000(s) == AtEnd(s, ClassPlus(s, {1}, Letters \cup Digits \cup {".", "-"}))

Variants == {"worker", "part_000"}

\* the external services each copy asks; "worker_root" is the handler of
\* GET / for command-line clients in worker.js
Services(v) ==
    IF v \in {"worker", "worker_root"} THEN {"ipapi"} ELSE {"ipInfo", "abuse", "shodan"}

\* getClientIP(request): a header value, or "Unknown": "1.2.3.4", "Unknown"
ClientIPs ==
    { <<"1", ".", "2", ".", "3", ".", "4">>,
      <<"U", "n", "k", "n", "o", "w", "n">> }

\* the target parameter: absent or "", "a_b", "1.2.3.4", "::1", "1::", "a.io"
AnalyzeTargets ==
    { <<>>,
      <<"a", "_", "b">>,
      <<"1", ".", "2", ".", "3", ".", "4">>,
      <<":", ":", "1">>,
      <<"1", ":", ":">>,
      <<"a", ".", "i", "o">> }

\* behaviours of the DoH service, per record type: every type answers; no A
\* record but two AAAA records; the service broken in every way; the name is
\* an alias, so that the answer for A is the CNAME record c1 followed by the
\* A record r1, and nothing else is answered
DohWorlds ==
    { [ty \in Types |-> Outcome("answer", <<"r1">>)],
      [ty \in Types |-> IF ty = "A" THEN Outcome("status", <<>>)
                        ELSE IF ty = "AAAA" THEN Outcome("answer", <<"r1", "r2">>)
                        ELSE Outcome("noAnswer", <<>>)],
      [ty \in Types |-> IF ty = "A" THEN Outcome("neterr", <<>>)
                        ELSE IF ty = "AAAA" THEN Outcome("badjson", <<>>)
                        ELSE IF ty \in {"MX", "PTR"} THEN Outcome("null", <<>>)
                        ELSE Outcome("status", <<>>)],
      [ty \in Types |-> IF ty = "A" THEN Outcome("answer", <<"c1", "r1">>)
                        ELSE Outcome("status", <<>>)] }

\* how the request to an external service ends: with the body of an ok
\* response, with an error status, with a rejected fetch, or with a body
\* that cannot be read
ExtOutcomes == {"ok", "status", "neterr", "badjson"}

\* the data field of a DoH answer record: "9.9.9.9" for r1, "8.8.8.8" for r2,
\* and for the CNAME record c1 the name it points to, "b.io."
dataOf(r) ==
    IF r = "r1" THEN <<"9", ".", "9", ".", "9", ".", "9">>
    ELSE IF r = "r2" THEN <<"8", ".", "8", ".", "8", ".", "8">>
    ELSE <<"b", ".", "i", "o", ".">>

NotSent == [st |-> "unsent", q |-> <<>>, out |-> "", val |-> ""]

Pending(q) == [st |-> "pending", q |-> q, out |-> "", val |-> ""]

\* the response is there with status out, its body is awaited
Reading(q, out) == [st |-> "reading", q |-> q, out |-> out, val |-> ""]

Done(q, out, val) == [st |-> "done", q |-> q, out |-> out, val |-> val]

\* the validation of the copy that serves the request
validFor(v, t) == IF v = "worker" THEN validTarget(t) ELSE validTarget_part000(t)

\* the value the response carries for service s once its request ended with
\* out: the parsed body, or the placeholder of the service's catch
extValue(v, s, out) ==
    IF s = "ipapi"
    THEN IF out = "ok" \/ (out = "status" /\ v = "worker") THEN "body" ELSE "ipapiError"
    ELSE IF out = "ok" THEN "body"
    ELSE IF s = "ipInfo" THEN "ipInfoError"
    ELSE IF s = "abuse" THEN "abuseError"
    ELSE "emptyShodan"

\* the responses whose body copy v reads: every ok response; of those with
\* an error status, the one of ipapi.is in /api/analyze of worker.js, which
\* has no test of res.ok, and the one of AbuseIPDB, whose text goes into the
\* message
readsBody(v, s, out) ==
    \/ out = "ok"
    \/ out = "status" /\ ((v = "worker" /\ s = "ipapi") \/ s = "abuse")

\* dns.X?.[0]?.data : <<>> stands for undefined
firstData(res, ty) ==
    IF ty \in DOMAIN res /\ Len(res[ty]) > 0 THEN dataOf(res[ty][1]) ELSE <<>>

\* const resolvedIp = dns.A?.[0]?.data || dns.AAAA?.[0]?.data;
\* const ipapiTarget = resolvedIp || target
ipapiTarget(res, t) ==
    IF firstData(res, "A") # <<>> THEN firstData(res, "A")
    ELSE IF firstData(res, "AAAA") # <<>> THEN firstData(res, "AAAA")
    ELSE t

\* new Response(JSON.stringify({ error }), { status: 400 })
BadRequest(error) ==
    [status |-> 400, keys |-> {"error"}, error |-> error, dns |-> EmptyResults]

\* GET /api/analyze?target=t arrives at copy v: the target is validated; a
\* valid one is handed to performDNSLookups with DNS_TYPES
Receive(v, t, w) ==
    /\ http.pc = "idle"
    /\ pc = "idle"
    /\ IF t = <<>>
       THEN /\ http' = [http EXCEPT !.pc = "responded", !.variant = v, !.target = t,
                                     !.resp = BadRequest("target required")]
            /\ UNCHANGED <<target, dnsTypes, pc, idx, lookups, results, requests, upstream>>
       ELSE IF ~validFor(v, t)
       THEN /\ http' = [http EXCEPT !.pc = "responded", !.variant = v, !.target = t,
                                     !.resp = BadRequest("Invalid target format")]
            /\ UNCHANGED <<target, dnsTypes, pc, idx, lookups, results, requests, upstream>>
       ELSE /\ StartLookups(t, DNS_TYPES)
            /\ http' = [http EXCEPT !.pc = "dnsCalled", !.variant = v, !.target = t,
                                     !.world = w,
                                     !.ext = [s \in Services(v) |-> NotSent]]
    /\ UNCHANGED <<verdict, calls, heap>>
    /\ UNCHANGED <<twin, ui>>

\* GET / from curl, wget or httpie arrives at worker.js: the target is the
\* client's address, handed to performDNSLookups without validation
ReceiveRoot(t, w) ==
    /\ http.pc = "idle"
    /\ pc = "idle"
    /\ StartLookups(t, DNS_TYPES)
    /\ http' = [http EXCEPT !.pc = "dnsCalled", !.variant = "worker_root",
                            !.target = t, !.world = w,
                            !.ext = [s \in Services("worker_root") |-> NotSent]]
    /\ UNCHANGED <<verdict, calls, heap>>
    /\ UNCHANGED <<twin, ui>>

\* performDNSLookups has run up to its await: the handler goes on to the
\* requests it sends without waiting for the DNS results
IssueExternal ==
    /\ http.pc = "dnsCalled"
    /\ pc = "awaiting"
    /\ IF http.variant = "worker"
       THEN IF isIp(http.target)
            THEN http' = [http EXCEPT !.pc = "joining",
                                      !.ext = [s \in {"ipapi"} |-> Pending(http.target)]]
            ELSE http' = [http EXCEPT !.pc = "awaitDns"]
       ELSE IF http.variant = "worker_root"
       THEN http' = [http EXCEPT !.pc = "joining",
                                 !.ext = [s \in {"ipapi"} |-> Pending(http.target)]]
       ELSE http' = [http EXCEPT !.pc = "joining",
                       !.ext = [s \in {"ipInfo", "abuse", "shodan"} |->
                                  IF s = "abuse" /\ ~IP_REGEX_test(http.target)
                                  THEN Done(<<>>, "", "abuseSkipped")
                                  ELSE Pending(http.target)]]
    /\ UNCHANGED <<target, verdict, dnsTypes, pc, idx, lookups, results, requests,
                   upstream, calls, heap>>
    /\ UNCHANGED <<twin, ui>>

\* one step of the DoH exchange of callback i, as the service behaves in
\* the world of this request
DohStep(i) ==
    /\ http.pc \notin {"idle", "dnsCalled"}
    /\ i \in 1..Len(dnsTypes)
    /\ LET o == http.world[dnsTypes[i]]
       IN  \/ o.kind = "neterr" /\ FetchRejects(i)
           \/ o.kind = "status" /\ FetchNotOk(i)
           \/ o.kind \notin {"neterr", "status"} /\ FetchOk(i)
           \/ o.kind = "badjson" /\ JsonRejects(i)
           \/ o.kind \in {"answer", "noAnswer", "null"} /\ JsonResolves(i, o)

\* worker.js, domain branch: dns is there, ipapi.is is asked about the first
\* A or AAAA record, or about the target
AfterDns ==
    /\ http.pc = "awaitDns"
    /\ pc = "returned"
    /\ http' = [http EXCEPT !.pc = "awaitIpapi",
                            !.ext = [s \in {"ipapi"} |->
                                       Pending(ipapiTarget(results, http.target))]]
    /\ UNCHANGED <<target, verdict, dnsTypes, pc, idx, lookups, results, requests,
                   upstream, calls, heap>>
    /\ UNCHANGED <<twin, ui>>

\* the fetch of the request to service s settles with out: a rejection ends
\* in the catch, a response whose body the code reads leaves the handler at
\* the await of res.json() or res.text(), any other ends the request
ExtFetchSettles(s, out) ==
    /\ http.pc \in {"joining", "awaitIpapi"}
    /\ s \in DOMAIN http.ext
    /\ http.ext[s].st = "pending"
    /\ http' = [http EXCEPT !.ext[s] =
                    IF readsBody(http.variant, s, out)
                    THEN Reading(http.ext[s].q, out)
                    ELSE Done(http.ext[s].q, out, extValue(http.variant, s, out))]
    /\ UNCHANGED <<target, verdict, dnsTypes, pc, idx, lookups, results, requests,
                   upstream, calls, heap>>
    /\ UNCHANGED <<twin, ui>>

\* the body of the response of service s settles: a body that resolves
\* gives the value of the response's status, one that rejects ends in the
\* catch
ExtBodySettles(s, resolves) ==
    /\ http.pc \in {"joining", "awaitIpapi"}
    /\ s \in DOMAIN http.ext
    /\ http.ext[s].st = "reading"
    /\ http' = [http EXCEPT !.ext[s] =
                    IF resolves
                    THEN Done(http.ext[s].q, http.ext[s].out,
                              extValue(http.variant, s, http.ext[s].out))
                    ELSE Done(http.ext[s].q, "badjson",
                              extValue(http.variant, s, "badjson"))]
    /\ UNCHANGED <<target, verdict, dnsTypes, pc, idx, lookups, results, requests,
                   upstream, calls, heap>>
    /\ UNCHANGED <<twin, ui>>

\* everything awaited is there: new Response(JSON.stringify({ target, dns, ... }))
Respond ==
    /\ http.pc \in {"joining", "awaitIpapi"}
    /\ pc = "returned"
    /\ \A s \in DOMAIN http.ext : http.ext[s].st = "done"
    /\ http' = [http EXCEPT !.pc = "responded",
                    !.resp = [status |-> 200,
                              keys |-> {"target", "dns"} \cup Services(http.variant),
                              error |-> "", dns |-> results]]
    /\ UNCHANGED <<target, verdict, dnsTypes, pc, idx, lookups, results, requests,
                   upstream, calls, heap>>
    /\ UNCHANGED <<twin, ui>>

NextAnalyze ==
    \/ \E v \in Variants, t \in AnalyzeTargets, w \in DohWorlds : Receive(v, t, w)
    \/ \E t \in ClientIPs, w \in DohWorlds : ReceiveRoot(t, w)
    \/ \E i \in 1..Len(DNS_TYPES) : Invoke(i)
    \/ IssueExternal
    \/ \E i \in 1..Len(DNS_TYPES) : DohStep(i)
    \/ Return
    \/ AfterDns
    \/ \E s \in {"ipapi", "ipInfo", "abuse", "shodan"}, out \in ExtOutcomes \ {"badjson"} :
          ExtFetchSettles(s, out)
    \/ \E s \in {"ipapi", "ipInfo", "abuse", "shodan"}, resolves \in BOOLEAN :
          ExtBodySettles(s, resolves)
    \/ Respond

SpecAnalyze == Init /\ [][NextAnalyze]_vars

----------------------------------------------------------------------------
(* performDNSLookups on addresses in their several notations: the same     *)
(* steps as under Spec, for the short type lists of the concurrent calls.  *)

\* "1.2.3.4", "::1", "1:1:1:1:1:1:1:1", "a.io"
NameTargets ==
    { <<"1", ".", "2", ".", "3", ".", "4">>,
      <<":", ":", "1">>,
      <<"1", ":", "1", ":", "1", ":", "1", ":", "1", ":", "1", ":", "1", ":", "1">>,
      <<"a", ".", "i", "o">> }

NextNames ==
    \/ \E t \in NameTargets, ts \in CallTypeLists : Call(t, ts)
    \/ \E i \in 1..MaxTypes : Invoke(i)
    \/ \E i \in 1..MaxTypes : FetchRejects(i)
    \/ \E i \in 1..MaxTypes : FetchNotOk(i)
    \/ \E i \in 1..MaxTypes : FetchOk(i)
    \/ \E i \in 1..MaxTypes : JsonRejects(i)
    \/ \E i \in 1..MaxTypes, body \in Bodies : JsonResolves(i, body)
    \/ Return

SpecNames == Init /\ [][NextNames]_vars

----------------------------------------------------------------------------
(* The two copies of performDNSLookups side by side: the copy of worker.js *)
(* runs on the variables of Spec, the copy of part_000 on twin.  Both are  *)
(* called with the same target and list and the DoH service treats the     *)
(* i-th request of both alike, so every step acts on both copies.          *)

\* queryName as part_000 picks it: its isIPv6 has no isIPv4 test
queryName_part000(t, type) ==
    IF type = "PTR"
    THEN IF isIPv4(t) THEN ipv4ToReverseDNS(t)
         ELSE IF isIPv6_part000(t) THEN ipv6ToReverseDNS(t)
         ELSE t
    ELSE t

\* a throw that no catch receives: the callback's promise rejects
notOkUncaught_part000(res, type) == [st |-> "rejected", res |-> res]

\* if (!res.ok) throw new Error(...), received by catch (e) { results[type] = []; }
notOk_part000(res, type) == catch(res, type)

\* callback i of the part_000 copy moves on if it stands at from
twinStep(i, from, st, res) ==
    IF twin.lookups[i] = from
    THEN [twin EXCEPT !.lookups[i] = st, !.results = res]
    ELSE twin

TwinCall(t, ts) ==
    /\ StartLookups(t, ts)
    /\ twin' = [lookups |-> [i \in 1..Len(ts) |-> "new"],
                results |-> EmptyResults, requests |-> <<>>]
    /\ UNCHANGED <<verdict, calls, heap, http, ui>>

TwinInvoke(i) ==
    /\ InvokeStep(i)
    /\ LET type == dnsTypes[i]
           name == queryName_part000(target, type)
       IN  twin' =
             IF skipPTR(target, type) \/ skipForIp(target, type)
             THEN twinStep(i, "new", "skipped", setEmpty(twin.results, type))
             ELSE IF name = RangeError
             THEN twinStep(i, "new", catch(twin.results, type).st,
                           catch(twin.results, type).res)
             ELSE [twin EXCEPT !.lookups[i] = "fetching",
                               !.requests = Append(twin.requests,
                                               [i |-> i, name |-> name, type |-> type])]
    /\ UNCHANGED <<calls, heap, http, ui>>

TwinFetchRejects(i) ==
    /\ FetchRejectsStep(i)
    /\ twin' = twinStep(i, "fetching", catch(twin.results, dnsTypes[i]).st,
                        catch(twin.results, dnsTypes[i]).res)
    /\ UNCHANGED <<calls, heap, http, ui>>

TwinFetchNotOk(i) ==
    /\ FetchNotOkStep(i)
    /\ twin' = twinStep(i, "fetching", notOk_part000(twin.results, dnsTypes[i]).st,
                        notOk_part000(twin.results, dnsTypes[i]).res)
    /\ UNCHANGED <<calls, heap, http, ui>>

TwinFetchOk(i) ==
    /\ FetchOkStep(i)
    /\ twin' = twinStep(i, "fetching", "parsing", twin.results)
    /\ UNCHANGED <<calls, heap, http, ui>>

TwinJsonRejects(i) ==
    /\ JsonRejectsStep(i)
    /\ twin' = twinStep(i, "parsing", catch(twin.results, dnsTypes[i]).st,
                        catch(twin.results, dnsTypes[i]).res)
    /\ UNCHANGED <<calls, heap, http, ui>>

TwinJsonResolves(i, body) ==
    /\ JsonResolvesStep(i, body)
    /\ twin' = IF body.kind = "null"
               THEN twinStep(i, "parsing", catch(twin.results, dnsTypes[i]).st,
                             catch(twin.results, dnsTypes[i]).res)
               ELSE twinStep(i, "parsing", "ok",
                             storeAnswer(twin.results, dnsTypes[i], body))
    /\ UNCHANGED <<calls, heap, http, ui>>

TwinReturn ==
    /\ ReturnStep
    /\ UNCHANGED <<calls, heap, http, twin, ui>>

NextCopies ==
    \/ \E t \in NameTargets, ts \in CallTypeLists : TwinCall(t, ts)
    \/ \E i \in 1..MaxTypes : TwinInvoke(i)
    \/ \E i \in 1..MaxTypes : TwinFetchRejects(i)
    \/ \E i \in 1..MaxTypes : TwinFetchNotOk(i)
    \/ \E i \in 1..MaxTypes : TwinFetchOk(i)
    \/ \E i \in 1..MaxTypes : TwinJsonRejects(i)
    \/ \E i \in 1..MaxTypes, body \in Bodies : TwinJsonResolves(i, body)
    \/ TwinReturn

SpecCopies == Init /\ [][NextCopies]_vars

----------------------------------------------------------------------------
(* The search history of the front-end (part_004, and the same functions   *)
(* in part_001): saveToHistory and the clear button, on a history that     *)
(* earlier saves have filled.                                              *)

MaxSaves == 3

\* history.filter(item => item !== query)
filter(h, query) == SelectSeq(h, LAMBDA item : item # query)

\* history.unshift(query)
unshift(h, query) == <<query>> \o h

\* history.slice(0, n)
slice(h, n) == SubSeq(h, 1, IF Len(h) < n THEN Len(h) ELSE n)

\* the saved query put on top of the entries already there
saveToHistoryNoFilter(h, query) ==
    IF query = 0 THEN h ELSE slice(unshift(h, query), HistoryCap)

\* saveToHistory(query): the array written back to localStorage
saveToHistory(h, query) ==
    IF query = 0 THEN h
    ELSE slice(unshift(filter(h, query), query), HistoryCap)

\* the history after the queries 1..n have been saved in that order
Filled(n) == [i \in 1..n |-> n + 1 - i]

\* the queries of the saves: the empty string, the two oldest and the newest
\* of a full history, and two that it does not hold
SaveQueries == {0, 1, 2, HistoryCap, HistoryCap + 1, HistoryCap + 2}

InitHistory ==
    /\ target = <<>>
    /\ verdict = NoVerdict
    /\ dnsTypes = <<>>
    /\ pc = "idle"
    /\ idx = 1
    /\ lookups = <<>>
    /\ results = EmptyResults
    /\ requests = <<>>
    /\ upstream = <<>>
    /\ calls = NoCalls
    /\ heap = NoHeap
    /\ http = NoRequest
    /\ twin = NoTwin
    /\ \E n \in 0..HistoryCap :
          ui = [NoPage EXCEPT !.history = Filled(n), !.clock = n, !.base = n,
                              !.lastSave = [q \in 1..n |-> q]]

\* a function with one more value
withValue(f, k, v) == [x \in (DOMAIN f) \cup {k} |-> IF x = k THEN v ELSE f[x]]

\* saveToHistory(q) is called
SaveToHistory(q) ==
    /\ ui.clock < ui.base + MaxSaves
    /\ ui' = [ui EXCEPT !.history = saveToHistory(ui.history, q),
                        !.clock = ui.clock + 1,
                        !.saved = q,
                        !.lastSave = IF q = 0 THEN ui.lastSave
                                     ELSE withValue(ui.lastSave, q, ui.clock + 1)]
    /\ UNCHANGED <<target, verdict, dnsTypes, pc, idx, lookups, results, requests,
                   upstream, calls, heap, http, twin>>

\* the clear button: localStorage.removeItem(HISTORY_KEY)
ClearHistory ==
    /\ ui' = [ui EXCEPT !.history = <<>>, !.lastSave = [q \in {} |-> 0]]
    /\ UNCHANGED <<target, verdict, dnsTypes, pc, idx, lookups, results, requests,
                   upstream, calls, heap, http, twin>>

NextHistory ==
    \/ \E q \in SaveQueries : SaveToHistory(q)
    \/ ClearHistory

SpecHistory == InitHistory /\ [][NextHistory]_vars

----------------------------------------------------------------------------
(* The page of the front-end: handleAnalyze with setLoading, the events    *)
(* that call it, and loadUserIP.  Three copies of the script exist:        *)
(* part_004, part_001 and the page embedded in part_000.  A run of         *)
(* handleAnalyze is suspended at its two awaits, and other events are      *)
(* handled in between.                                                     *)

MaxRuns == 2

PageCopies == {"part_004", "part_001", "part_000"}

\* the values of the input field: 0 names "", 1 "a.io", 2 "1.2.3.4",
\* 3 "http://a.io/x" and 4 "  "
PageInputs == 0..4

\* input.value.trim()
trim(q) == IF q = 4 THEN 0 ELSE q

\* the URL parse of handleAnalyze: a target with '://' or '.' is replaced by
\* the hostname of its URL
hostname(q) == IF q = 3 THEN 1 ELSE q

\* the copies with a search history
hasHistory(copy) == copy \in {"part_004", "part_001"}

\* the IP info of a response body, data.ipInfo or data.ipapi: "ok" is the
\* body of the external service, "fail" the body {status: 'fail'} that
\* ip-api.com returns for a query it cannot answer, "error" the placeholder
\* {error, message} that the worker puts in when the service failed
PageInfos(copy) == IF copy = "part_001" THEN {"ok", "error"}
                   ELSE {"ok", "fail", "error"}

\* const ipInfoFailed = data.ipInfo && data.ipInfo.status === 'fail';
\* const ipapiFailed = !data.ipapi || data.ipapi.error;
ipInfoFailed(copy, info) ==
    IF copy = "part_001" THEN info = "error" ELSE info = "fail"

\* no response has been handled yet
NoResp == [run |-> 0, kind |-> "none", hasDns |-> FALSE, info |-> ""]

\* setLoading(isLoading)
setLoading(u, isLoading) ==
    [u EXCEPT !.btnDisabled = isLoading, !.btnLoader = isLoading]

\* handleAnalyze up to its first await: nothing on an empty target, else
\* the hostname is written back to the input, the button is disabled, error
\* and results are hidden and the request is sent
startRun(u) ==
    IF trim(u.input) = 0 THEN u
    ELSE LET t == hostname(trim(u.input))
             v == setLoading([u EXCEPT !.input = t], TRUE)
         IN  [v EXCEPT !.errorMsg = FALSE, !.resultsDiv = FALSE,
                       !.runs = Append(@, [target |-> t, pc |-> "fetch",
                                           ok |-> FALSE, outcome |-> ""])]

\* the catch and finally blocks of run r, which got response resp
failRun(u, r, resp) ==
    setLoading([u EXCEPT !.errorMsg = TRUE, !.errorOf = r,
                         !.runs[r].pc = "done", !.runs[r].outcome = "error",
                         !.last = [resp EXCEPT !.run = r]], FALSE)

\* the end of the try block of run r and its finally block: renderData,
\* the results un-hidden (part_001 un-hides them first), saveToHistory
finishRun(u, r, resp) ==
    LET v == [u EXCEPT !.rendered = r, !.resultsDiv = TRUE,
                       !.runs[r].pc = "done", !.runs[r].outcome = "results",
                       !.last = [resp EXCEPT !.run = r]]
        w == IF hasHistory(u.copy)
             THEN [v EXCEPT !.history = saveToHistory(u.history, u.runs[r].target)]
             ELSE v
    IN  setLoading(w, FALSE)

PageFrame == UNCHANGED <<target, verdict, dnsTypes, pc, idx, lookups, results,
                         requests, upstream, calls, heap, http, twin>>

InitPage ==
    /\ target = <<>>
    /\ verdict = NoVerdict
    /\ dnsTypes = <<>>
    /\ pc = "idle"
    /\ idx = 1
    /\ lookups = <<>>
    /\ results = EmptyResults
    /\ requests = <<>>
    /\ upstream = <<>>
    /\ calls = NoCalls
    /\ heap = NoHeap
    /\ http = NoRequest
    /\ twin = NoTwin
    /\ \E copy \in PageCopies, n \in 0..2 :
          /\ n > 0 => hasHistory(copy)
          /\ ui = [NoPage EXCEPT !.copy = copy, !.myip = "fetch",
                                 !.history = Filled(n)]

\* the user edits the input field
TypeInput(q) ==
    /\ ui.input # q
    /\ ui' = [ui EXCEPT !.input = q]
    /\ PageFrame

\* btn.addEventListener('click', handleAnalyze): a disabled button does not
\* fire click events
ClickAnalyze ==
    /\ ~ui.btnDisabled
    /\ Len(ui.runs) < MaxRuns
    /\ ui' = startRun(ui)
    /\ PageFrame

\* the keypress listener of the input: Enter calls handleAnalyze
PressEnter ==
    /\ Len(ui.runs) < MaxRuns
    /\ ui' = startRun(ui)
    /\ PageFrame

\* the click listener of a history item
ClickHistoryItem(i) ==
    /\ hasHistory(ui.copy)
    /\ i \in 1..Len(ui.history)
    /\ Len(ui.runs) < MaxRuns
    /\ ui' = startRun([ui EXCEPT !.input = ui.history[i]])
    /\ PageFrame

\* the clear button
ClickClear ==
    /\ hasHistory(ui.copy)
    /\ ui' = [ui EXCEPT !.history = <<>>]
    /\ PageFrame

\* loadUserIP: fetch('/api/myip') resolves, and response.json() is awaited,
\* or it rejects, which the catch logs
MyIpFetchSettles(resolves) ==
    /\ ui.myip = "fetch"
    /\ ui' = [ui EXCEPT !.myip = IF resolves THEN "json" ELSE "done"]
    /\ PageFrame

\* response.json() settles: ip is -1 when it rejects, 0 when data.ip is
\* missing or 'Unknown', else the address, which is analyzed at once
MyIpJsonSettles(ip) ==
    /\ ui.myip = "json"
    /\ ip > 0 => Len(ui.runs) < MaxRuns
    /\ ui' = IF ip > 0 THEN startRun([ui EXCEPT !.myip = "done", !.input = ip])
             ELSE [ui EXCEPT !.myip = "done"]
    /\ PageFrame

\* the fetch of run r rejects
RunFetchRejects(r) ==
    /\ r \in 1..Len(ui.runs)
    /\ ui.runs[r].pc = "fetch"
    /\ ui' = failRun(ui, r, [NoResp EXCEPT !.kind = "neterr"])
    /\ PageFrame

\* the fetch of run r resolves with a response whose ok flag is ok
RunFetchResolves(r, ok) ==
    /\ r \in 1..Len(ui.runs)
    /\ ui.runs[r].pc = "fetch"
    /\ ui' = [ui EXCEPT !.runs[r].pc = "json", !.runs[r].ok = ok]
    /\ PageFrame

\* response.json() of run r rejects
RunJsonRejects(r) ==
    /\ r \in 1..Len(ui.runs)
    /\ ui.runs[r].pc = "json"
    /\ ui' = failRun(ui, r, [NoResp EXCEPT !.kind = "badjson"])
    /\ PageFrame

\* response.json() of run r resolves: an error status throws, a body with
\* no DNS records and failed IP info throws, any other body is rendered
RunJsonResolves(r, hasDns, info) ==
    /\ r \in 1..Len(ui.runs)
    /\ ui.runs[r].pc = "json"
    /\ info \in PageInfos(ui.copy)
    /\ ui' = IF ~ui.runs[r].ok
             THEN failRun(ui, r, [NoResp EXCEPT !.kind = "status"])
             ELSE LET resp == [NoResp EXCEPT !.kind = "data",
                                             !.hasDns = hasDns, !.info = info]
                  IN  IF ipInfoFailed(ui.copy, info) /\ ~hasDns
                      THEN failRun(ui, r, resp)
                      ELSE finishRun(ui, r, resp)
    /\ PageFrame

NextPage ==
    \/ \E q \in PageInputs : TypeInput(q)
    \/ ClickAnalyze
    \/ PressEnter
    \/ \E i \in 1..HistoryCap : ClickHistoryItem(i)
    \/ ClickClear
    \/ \E resolves \in BOOLEAN : MyIpFetchSettles(resolves)
    \/ \E ip \in {-1, 0, 2} : MyIpJsonSettles(ip)
    \/ \E r \in 1..MaxRuns : RunFetchRejects(r)
    \/ \E r \in 1..MaxRuns, ok \in BOOLEAN : RunFetchResolves(r, ok)
    \/ \E r \in 1..MaxRuns : RunJsonRejects(r)
    \/ \E r \in 1..MaxRuns, hasDns \in BOOLEAN, info \in {"ok", "fail", "error"} :
          RunJsonResolves(r, hasDns, info)

SpecPage == InitPage /\ [][NextPage]_vars

----------------------------------------------------------------------------

(* Properties of performDNSLookups, checked under Spec.                    *)

Idxs == 1..Len(dnsTypes)

\* the requests sent by callback i / sent for record type ty
RequestsOf(i) == {k \in 1..Len(requests) : requests[k].i = i}

RequestsFor(ty) == {k \in 1..Len(requests) : requests[k].type = ty}

HasEmptyEntry(ty) == ty \in DOMAIN results /\ results[ty] = <<>>

DomainTarget == <<"a", ".", "i", "o">>

\* the targets IP_REGEX classifies as IPv4 or IPv6; the others are Domain
IpTargets == {t \in AggTargets : IP_REGEX_test(t)}

TargetIsIp == target \in IpTargets

\* C1: the mapping performDNSLookups returns has a key for every requested
\* record type, whatever the target, the list and the upstream outcomes.
C1_EveryTypeHasKey ==
    pc = "returned" => \A i \in Idxs : dnsTypes[i] \in DOMAIN results

\* C1 witness: [.., A, .., PTR] on a domain, A answered 500, call returned
C1_Witness ==
    /\ pc = "returned"
    /\ target = DomainTarget
    /\ \E i, j \in Idxs :
          /\ dnsTypes[i] = "A" /\ upstream[i].kind = "status"
          /\ dnsTypes[j] = "PTR" /\ lookups[j] = "skipped"
    /\ {"A", "PTR"} \subseteq DOMAIN results

\* the entry a lookup leaves, as a function of what the DoH service did with
\* its own request only
OwnEntry(out) == IF out.kind = "answer" THEN out.answer ELSE <<>>

\* C2: a failed lookup (network error, non-success status, unparseable body)
\* leaves the empty sequence for its own type, every settled lookup's entry is
\* what its own upstream outcome alone determines, and neither a callback nor
\* performDNSLookups ever rejects.
C2_FailureIsolation ==
    /\ pc # "rejected"
    /\ \A i \in Idxs :
          /\ lookups[i] # "rejected"
          /\ upstream[i].kind \in {"neterr", "status", "badjson"}
                => HasEmptyEntry(dnsTypes[i])
          /\ lookups[i] \in {"skipped", "failed", "ok"}
                => /\ dnsTypes[i] \in DOMAIN results
                   /\ results[dnsTypes[i]] = OwnEntry(upstream[i])

\* C2 witness: one lookup failed on malformed JSON after another one stored
\* its answers, which are still there when the call has returned
C2_Witness ==
    /\ pc = "returned"
    /\ \E i, j \in Idxs :
          /\ upstream[i].kind = "badjson" /\ results[dnsTypes[i]] = <<>>
          /\ upstream[j].kind = "answer" /\ results[dnsTypes[j]] = <<"r1", "r2">>

\* callback i takes part in the fan-out: its type is applicable to the target
Applicable(i) ==
    IF dnsTypes[i] = "PTR" THEN TargetIsIp
    ELSE ~(TargetIsIp /\ dnsTypes[i] \in {"A", "AAAA", "MX", "CNAME", "NS", "SOA"})

\* the fetch of callback i has completed (resolved or rejected)
FetchCompleted(i) == lookups[i] = "parsing" \/ upstream[i].kind # "none"

\* C3: all DoH requests of a call are issued before any one of them completes:
\* when a fetch has completed, every applicable type's request has been sent.
C3_FanOut ==
    (\E i \in Idxs : FetchCompleted(i))
        => \A j \in Idxs : Applicable(j) => RequestsOf(j) # {}

\* C3 witness: domain target, three applicable types, three requests out, one
\* completed while the two others are still in flight
C3_Witness ==
    /\ target = DomainTarget
    /\ Len(dnsTypes) = 3
    /\ Len(requests) = 3
    /\ \E i \in Idxs : lookups[i] = "ok"
    /\ Cardinality({j \in Idxs : lookups[j] = "fetching"}) = 2

\* C4: performDNSLookups returns only when every lookup it launched has
\* completed; it never returns while a callback is not yet invoked, awaits its
\* fetch or awaits res.json().
C4_FanIn ==
    pc = "returned" => \A i \in Idxs : lookups[i] \notin {"new", "fetching", "parsing"}

\* C4 witness: the call has returned after two requests, one failed on a
\* network error, one answered
C4_Witness ==
    /\ pc = "returned"
    /\ Len(requests) >= 2
    /\ \E i, j \in Idxs : upstream[i].kind = "neterr" /\ upstream[j].kind = "answer"

\* C5: for a target classified as Domain, PTR yields the empty sequence and no
\* DoH request is ever sent for PTR.
C5_NoPTRForDomain ==
    pc # "idle" /\ ~TargetIsIp
        => /\ RequestsFor("PTR") = {}
           /\ \A i \in Idxs :
                 dnsTypes[i] = "PTR" /\ lookups[i] # "new"
                    => lookups[i] = "skipped" /\ HasEmptyEntry("PTR")

\* C5 witness: a domain call with PTR requested has returned
C5_Witness ==
    /\ pc = "returned"
    /\ target = DomainTarget
    /\ \E i \in Idxs : dnsTypes[i] = "PTR"
    /\ HasEmptyEntry("PTR")
    /\ Len(requests) >= 1

\* C6: for a target classified as IPv4 or IPv6, each of A, AAAA, MX, NS, CNAME
\* and SOA yields the empty sequence and no DoH request is sent for it.
C6_NoDomainTypesForIp ==
    TargetIsIp
        => \A i \in Idxs :
              dnsTypes[i] \in {"A", "AAAA", "MX", "NS", "CNAME", "SOA"}
                 => /\ RequestsFor(dnsTypes[i]) = {}
                    /\ lookups[i] # "new"
                          => lookups[i] = "skipped" /\ HasEmptyEntry(dnsTypes[i])

\* C6 witness: an IPv6 call with SOA and PTR requested has returned, SOA empty
\* without a request, PTR looked up
C6_Witness ==
    /\ pc = "returned"
    /\ target = <<"1", ":", "2", ":", ":", "3">>
    /\ \E i \in Idxs : dnsTypes[i] = "SOA"
    /\ HasEmptyEntry("SOA")
    /\ RequestsFor("PTR") # {}

\* C7: for a target classified as IPv4 or IPv6, TXT yields the empty sequence
\* and no DoH request is sent for TXT.
C7_NoTXTForIp ==
    TargetIsIp
        => /\ RequestsFor("TXT") = {}
           /\ \A i \in Idxs :
                 dnsTypes[i] = "TXT" /\ lookups[i] # "new"
                    => lookups[i] = "skipped" /\ HasEmptyEntry("TXT")

\* C8: no retries: in every step, at most one DoH request has been sent per
\* record type, and a lookup that has failed stays failed with the empty sequence
\* as its type's entry.
C8_NoRetry ==
    [][ /\ \A ty \in Types : Cardinality({k \in 1..Len(requests') : requests'[k].type = ty}) <= 1
        /\ \A i \in Idxs :
              lookups[i] = "failed"
                 => /\ lookups'[i] = "failed"
                    /\ dnsTypes'[i] \in DOMAIN results'
                    /\ results'[dnsTypes'[i]] = <<>>
                    /\ requests' = requests ]_vars

\* C8 witness: a lookup answered with a non-success status has failed, one
\* request was sent for it, and another lookup is still awaiting its fetch
C8_Witness ==
    \E i, j \in Idxs :
        /\ upstream[i].kind = "status"
        /\ lookups[i] = "failed"
        /\ Cardinality(RequestsOf(i)) = 1
        /\ lookups[j] = "fetching"

----------------------------------------------------------------------------
(* Properties of the classifier, checked under SpecClassify.               *)

HasColon == \E k \in 1..Len(target) : target[k] = ":"

\* C9: every string gets exactly one kind: isIPv4 and isIPv6 are never both
\* true, IP_REGEX.test is true exactly when one of them is, and a string with
\* a colon that is not IPv6 is neither (Domain); the same with the isIPv6 of
\* the second copy of the worker.
C9_ExactlyOneKind ==
    verdict.ran
        => /\ ~(verdict.v4 /\ verdict.v6)
           /\ verdict.ip <=> (verdict.v4 \/ verdict.v6)
           /\ HasColon /\ ~verdict.v6 => ~verdict.ip /\ ~verdict.v4
           /\ ~(verdict.v4 /\ verdict.v6p0)
           /\ verdict.ip <=> (verdict.v4 \/ verdict.v6p0)

\* C9 witness: "1::" has a colon, matches no IPv6 form and is Domain
C9_Witness ==
    /\ verdict.ran
    /\ target = <<"1", ":", ":">>
    /\ ~verdict.v4 /\ ~verdict.v6 /\ ~verdict.ip

DigitSeq == <<"0", "1", "2", "3", "4", "5", "6", "7", "8", "9">>

DigitVal(c) == (CHOOSE n \in 1..10 : DigitSeq[n] = c) - 1

RECURSIVE Decimal(_)
Decimal(g) == IF g = <<>> THEN 0 ELSE 10 * Decimal(SubSeq(g, 1, Len(g) - 1)) + DigitVal(g[Len(g)])

\* four dot-separated groups of 1 to 3 decimal digits, each in [0, 255]
DottedQuad(s) ==
    LET g == split(s, <<".">>)
    IN  /\ Len(g) = 4
        /\ \A k \in 1..4 :
              /\ Len(g[k]) \in 1..3
              /\ \A m \in 1..Len(g[k]) : g[k][m] \in Digits
              /\ Decimal(g[k]) \in 0..255

\* C10: isIPv4 is true exactly for four groups of 1 to 3 decimal digits, each
\* numerically in [0, 255], separated by single dots, nothing before or after.
C10_IPv4Grammar == verdict.ran => (verdict.v4 <=> DottedQuad(target))

\* C10 witness: "010.1.1.1", an octet with a leading zero, is IPv4
C10_Witness ==
    /\ verdict.ran
    /\ target = <<"0", "1", "0", ".", "1", ".", "1", ".", "1">>
    /\ verdict.v4

\* a group of 1 to 4 hex digits
HexGroup(g) == Len(g) \in 1..4 /\ \A k \in 1..Len(g) : g[k] \in HexChars

\* the groups of one side of a compression; an empty side has none
SideGroups(x) == IF x = <<>> THEN <<>> ELSE split(x, <<":">>)

\* the positions at which "::" occurs
CompressionAt(s) == {i \in 1..Len(s) : HasAt(s, i, <<":", ":">>)}

\* the fully expanded form: 8 groups of 1 to 4 hex digits
FullForm(s) ==
    LET g == split(s, <<":">>)
    IN  Len(g) = 8 /\ \A k \in 1..8 : HexGroup(g[k])

\* one "::" at a group boundary, leading and trailing included, standing for
\* at least one group; "::" alone is the unspecified address
CompressedForm(s) ==
    /\ Cardinality(CompressionAt(s)) = 1
    /\ LET i == CHOOSE p \in CompressionAt(s) : TRUE
           l == SideGroups(SubSeq(s, 1, i - 1))
           r == SideGroups(SubSeq(s, i + 2, Len(s)))
       IN  /\ \A k \in 1..Len(l) : HexGroup(l[k])
           /\ \A k \in 1..Len(r) : HexGroup(r[k])
           /\ Len(l) + Len(r) <= 7

\* ::ffff:a.b.c.d, or 6 hex groups followed by a dotted quad
MappedForm(s) ==
    \/ LET w == <<":", ":", "f", "f", "f", "f", ":">>
       IN  HasAt(s, 1, w) /\ DottedQuad(SubSeq(s, Len(w) + 1, Len(s)))
    \/ LET g == split(s, <<":">>)
       IN  Len(g) = 7 /\ (\A k \in 1..6 : HexGroup(g[k])) /\ DottedQuad(g[7])

ValidV6Form(s) == FullForm(s) \/ CompressedForm(s) \/ MappedForm(s)

\* C11: every valid IPv6 literal form is classified IPv6: the 8-group form, a
\* single "::" at any group boundary (leading and trailing included), "::",
\* "::1", and the IPv4-mapped / embedded forms.
C11_ValidFormsAreIPv6 == verdict.ran /\ ValidV6Form(target) => verdict.v6

\* C12: a string in which "::" occurs two or more times is never classified as
\* IPv6: isIPv6 (both copies) and IP_REGEX.test are false, so it is a Domain.
C12_NoDoubleCompression ==
    verdict.ran /\ Cardinality(CompressionAt(target)) >= 2
        => ~verdict.v6 /\ ~verdict.v6p0 /\ ~verdict.ip

\* C12 witness: "1::1::1" has been classified, as a Domain
C12_Witness ==
    /\ verdict.ran
    /\ target = <<"1", ":", ":", "1", ":", ":", "1">>
    /\ ~verdict.v6 /\ ~verdict.ip

LowerHex == Digits \cup {"a", "b", "c", "d", "e", "f"}

\* exactly 8 colon-separated groups of exactly 4 lowercase hex digits
Canonical8(e) ==
    LET g == split(e, <<":">>)
    IN  /\ Len(g) = 8
        /\ \A k \in 1..Len(g) : Len(g[k]) = 4 /\ \A m \in 1..4 : g[k][m] \in LowerHex

\* C13: for every string the classifier accepts as IPv6, expandIPv6 returns
\* exactly 8 colon-separated groups of exactly 4 lowercase hex digits.
C13_ExpandIsCanonical == verdict.exp # <<>> => Canonical8(verdict.exp)

\* an address that is already fully expanded: 8 groups of exactly 4 hex digits
FullyExpanded(s) ==
    FullForm(s) /\ \A k \in 1..8 : Len(split(s, <<":">>)[k]) = 4

EightZeroGroups ==
    <<"0", "0", "0", "0", ":", "0", "0", "0", "0", ":", "0", "0", "0", "0", ":",
      "0", "0", "0", "0", ":", "0", "0", "0", "0", ":", "0", "0", "0", "0", ":",
      "0", "0", "0", "0", ":", "0", "0", "0", "0">>

\* C14: expandIPv6 is idempotent on every accepted IPv6 address, returns an
\* already fully expanded address unchanged, and maps "::" to eight groups of
\* 0000.
C14_ExpandIdempotent ==
    /\ verdict.exp2 # <<>> => verdict.exp2 = verdict.exp
    /\ verdict.exp # <<>> /\ FullyExpanded(target) => verdict.exp = target
    /\ verdict.exp # <<>> /\ target = <<":", ":">> => verdict.exp = EightZeroGroups

\* C14 witness: "ab::1" was expanded to 00ab:0000:...:0001, and expanding the
\* result again gave the same string
C14_Witness ==
    /\ target = <<"a", "b", ":", ":", "1">>
    /\ verdict.exp = <<"0", "0", "a", "b", ":", "0", "0", "0", "0", ":", "0", "0", "0", "0", ":",
                       "0", "0", "0", "0", ":", "0", "0", "0", "0", ":", "0", "0", "0", "0", ":",
                       "0", "0", "0", "0", ":", "0", "0", "0", "1">>
    /\ verdict.exp2 = verdict.exp

HasDot(s) == \E k \in 1..Len(s) : s[k] = "."

\* the 32 hex digits of the fully expanded form of a valid address without an
\* embedded dotted quad: each group zero-padded to 4 digits, the groups that
\* "::" stands for as zeros
FullDigits(s) ==
    LET groups ==
            IF CompressionAt(s) = {} THEN split(s, <<":">>)
            ELSE LET i == CHOOSE p \in CompressionAt(s) : TRUE
                     l == SideGroups(SubSeq(s, 1, i - 1))
                     r == SideGroups(SubSeq(s, i + 2, Len(s)))
                 IN  l \o [k \in 1..(8 - Len(l) - Len(r)) |-> <<>>] \o r
        pad(g) == [k \in 1..(4 - Len(g)) |-> "0"] \o g
    IN  removeColons(join([k \in 1..Len(groups) |-> pad(groups[k])], <<":">>))

\* 32 one-digit labels, then ip6.arpa
Nibbles32(p) ==
    LET lab == split(p, <<".">>)
    IN  /\ Len(lab) = 34
        /\ lab[33] = <<"i", "p", "6">> /\ lab[34] = <<"a", "r", "p", "a">>
        /\ \A k \in 1..32 : Len(lab[k]) = 1 /\ lab[k][1] \in HexChars

\* C15: for every accepted IPv6 address ipv6ToReverseDNS returns the 32 hex
\* digits of the fully expanded address in reverse order, one per label, then
\* ip6.arpa.
C15_ReverseDNSv6 ==
    verdict.v6 /\ verdict.ptr # <<>>
        => /\ Nibbles32(verdict.ptr)
           /\ ~HasDot(target)
                 => \A k \in 1..32 : split(verdict.ptr, <<".">>)[k] = <<FullDigits(target)[33 - k]>>

\* C16: for every a.b.c.d accepted by isIPv4, ipv4ToReverseDNS returns
\* d.c.b.a.in-addr.arpa with the octets verbatim, and sends no request.
C16_ReverseDNSv4 ==
    verdict.v4 /\ verdict.ptr # <<>>
        => /\ LET o == split(target, <<".">>)
              IN  verdict.ptr =
                      o[4] \o <<".">> \o o[3] \o <<".">> \o o[2] \o <<".">> \o o[1]
                          \o <<".", "i", "n", "-", "a", "d", "d", "r", ".", "a", "r", "p", "a">>
           /\ requests = <<>>

\* C16 witness: "0.00.010.255" gave "255.010.00.0.in-addr.arpa"
C16_Witness ==
    /\ verdict.v4
    /\ target = <<"0", ".", "0", "0", ".", "0", "1", "0", ".", "2", "5", "5">>
    /\ verdict.ptr = <<"2", "5", "5", ".", "0", "1", "0", ".", "0", "0", ".", "0",
                       ".", "i", "n", "-", "a", "d", "d", "r", ".", "a", "r", "p", "a">>

----------------------------------------------------------------------------
(* Further properties of performDNSLookups, checked under Spec.            *)

\* C17: when a lookup succeeds, its type's entry is exactly the Answer list of
\* the DoH response (same records, same order), and the empty sequence when
\* the response has no Answer field.
C17_AnswerStoredAsIs ==
    \A i \in Idxs :
        lookups[i] = "ok"
            => /\ dnsTypes[i] \in DOMAIN results
               /\ upstream[i].kind = "answer" => results[dnsTypes[i]] = upstream[i].answer
               /\ upstream[i].kind = "noAnswer" => results[dnsTypes[i]] = <<>>

\* C17 witness: one lookup stored the two records r1, r2 in that order, another
\* one got a response without Answer and stored the empty sequence
C17_Witness ==
    \E i, j \in Idxs :
        /\ lookups[i] = "ok" /\ upstream[i].answer = <<"r1", "r2">>
        /\ results[dnsTypes[i]] = <<"r1", "r2">>
        /\ lookups[j] = "ok" /\ upstream[j].kind = "noAnswer"
        /\ results[dnsTypes[j]] = <<>>

\* the step changes the entry of record type ty
EntryChanged(ty) ==
    \/ (ty \in DOMAIN results') # (ty \in DOMAIN results)
    \/ ty \in DOMAIN results /\ ty \in DOMAIN results' /\ results'[ty] # results[ty]

\* the mapping the upstream outcomes alone determine
DeterminedResults ==
    [ty \in {dnsTypes[i] : i \in Idxs} |->
        OwnEntry(upstream[CHOOSE i \in Idxs : dnsTypes[i] = ty])]

\* C18: a step changes the entry of a record type only if it is a step of the
\* callback of that type, and the mapping returned is the one the upstream
\* outcomes determine, whatever the order in which the lookups completed.
C18_OrderIndependent ==
    [][ /\ \A ty \in Types :
              EntryChanged(ty)
                 => \E i \in 1..Len(dnsTypes') :
                       /\ dnsTypes'[i] = ty
                       /\ lookups'[i] # lookups[i]
                       /\ \A j \in 1..Len(dnsTypes') : j # i => lookups'[j] = lookups[j]
        /\ pc' = "returned" => results' = DeterminedResults' ]_vars

\* C18 witness: a later lookup has completed and stored its answer while an
\* earlier one is still awaiting its fetch
C18_Witness ==
    \E i, j \in Idxs :
        /\ i < j
        /\ lookups[i] = "fetching"
        /\ lookups[j] = "ok"
        /\ results[dnsTypes[j]] = <<"r1">>

----------------------------------------------------------------------------
\* C19: the mapping of a performDNSLookups call is created inside that call:
\* calls in flight together each own a mapping of their own, and at every
\* moment the mapping of a call holds only keys of that call's type list, an
\* entry for each of its lookups that has ended, fixed by what the DoH service
\* did with that call's own request, and no entry for a lookup still in flight
C19_RequestScoped ==
    \A c \in CallIds :
        calls[c].pc # "idle" =>
            /\ \A d \in CallIds \ {c} : calls[d].pc # "idle" => calls[d].obj # calls[c].obj
            /\ LET m == heap[calls[c].obj]
                   fr == calls[c]
               IN  /\ \A k \in DOMAIN m : \E i \in 1..Len(fr.types) : fr.types[i] = k
                   /\ \A i \in 1..Len(fr.types) :
                         IF fr.lookups[i] \in {"fetching", "parsing"}
                         THEN fr.types[i] \notin DOMAIN m
                         ELSE /\ fr.types[i] \in DOMAIN m
                              /\ m[fr.types[i]] = OwnEntry(fr.up[i])

\* two calls in flight together, both asking for TXT: the first already holds
\* its TXT answer, the second (another target) is still waiting for its own
C19_Witness ==
    /\ calls[1].pc = "awaiting" /\ calls[2].pc = "awaiting"
    /\ calls[1].target # calls[2].target
    /\ calls[1].types = <<"A", "TXT">> /\ calls[2].types = <<"TXT", "PTR">>
    /\ calls[1].lookups[2] = "ok" /\ calls[1].up[2].kind = "answer"
    /\ calls[2].lookups[1] = "fetching"
    /\ calls[2].lookups[2] = "ok"

----------------------------------------------------------------------------
(* Properties of the /api/analyze handler, checked under SpecAnalyze.      *)

\* "1.2.3.4"
V4Literals == { <<"1", ".", "2", ".", "3", ".", "4">> }

\* "::1", "1::"
V6Literals == { <<":", ":", "1">>, <<"1", ":", ":">> }

\* "a.io"
DomainNames == { <<"a", ".", "i", "o">> }

\* C20: a GET /api/analyze with a non-empty target that is an IPv4 literal,
\* an IPv6 literal or a domain name is answered with status 200 and a JSON
\* body whose dns field is the mapping performDNSLookups returned for that
\* target and all eight record types, a key for each of them; for an IPv6
\* literal a PTR request has been sent to the DoH service
C20_AnalyzeAggregatesAll ==
    (http.pc = "responded" /\ http.target \in V4Literals \cup V6Literals \cup DomainNames)
        => /\ http.resp.status = 200
           /\ "dns" \in http.resp.keys
           /\ pc = "returned" /\ target = http.target /\ dnsTypes = DNS_TYPES
           /\ http.resp.dns = results
           /\ DOMAIN http.resp.dns = Types
           /\ http.target \in V6Literals => RequestsFor("PTR") # {}

AllServices == {"ipapi", "ipInfo", "abuse", "shodan"}

\* the step sends the request to service s
Issued(s) ==
    /\ s \in DOMAIN http'.ext
    /\ http'.ext[s].st = "pending"
    /\ s \in DOMAIN http.ext => http.ext[s].st = "unsent"

\* some DoH exchange of the aggregation is still going on
DnsInFlight == pc = "awaiting" /\ \E i \in Idxs : lookups[i] \in {"fetching", "parsing"}

\* C21: for every target kind, each request to an external service
\* is sent while the DNS aggregation is still going on, and asks about the
\* target itself, whatever the DNS results are
C21_ExternalInParallel ==
    [][\A s \in AllServices :
          Issued(s) => /\ DnsInFlight
                       /\ http'.ext[s].q = http.target]_vars

\* the value each service's catch puts in the place of a failed request
Placeholder ==
    [s \in AllServices |->
        IF s = "ipapi" THEN "ipapiError"
        ELSE IF s = "ipInfo" THEN "ipInfoError"
        ELSE IF s = "abuse" THEN "abuseError"
        ELSE "emptyShodan"]

\* C22: in /api/analyze and in the root handler for command-line clients,
\* once the target has been handed to the aggregator the response is status
\* 200 with the complete dns mapping whatever the external services did, and
\* a service whose request failed (network error, non-success status or
\* unparseable body) has its placeholder in the response
C22_ExternalFailurePlaceholder ==
    (http.pc = "responded" /\ http.ext # <<>>)
        => /\ http.resp.status = 200
           /\ DOMAIN http.resp.dns = Types
           /\ \A s \in DOMAIN http.ext :
                 http.ext[s].out \in {"neterr", "status", "badjson"}
                    => http.ext[s].val = Placeholder[s]

----------------------------------------------------------------------------
(* Query names of performDNSLookups, checked under SpecNames.              *)

NameV4Targets == {t \in NameTargets : isIPv4(t)}

NameV6Targets == {t \in NameTargets : includesColon(t) /\ IP_REGEX_test(t)}

\* d.c.b.a.in-addr.arpa for a.b.c.d
ReverseNameV4(t) ==
    LET o == split(t, <<".">>)
    IN  o[4] \o <<".">> \o o[3] \o <<".">> \o o[2] \o <<".">> \o o[1]
            \o <<".", "i", "n", "-", "a", "d", "d", "r", ".", "a", "r", "p", "a">>

\* the 32 hex digits of the expanded address t in reverse order, one per
\* label, then ip6.arpa
IsReverseNameV6(name, t) ==
    /\ Nibbles32(name)
    /\ \A k \in 1..32 : split(name, <<".">>)[k] = <<FullDigits(t)[33 - k]>>

\* C23: for a target classified as IPv4 or IPv6 at most one request is sent
\* for PTR, and its query name is the reverse-DNS name of the target
\* (d.c.b.a.in-addr.arpa, or the 32 reversed hex digits under ip6.arpa),
\* never the target string; for a domain target every request, none of them
\* for PTR, has the target string as its query name
C23_PtrUsesReverseName ==
    /\ \A k \in 1..Len(requests) :
          /\ (target \in NameV4Targets /\ requests[k].type = "PTR")
                => requests[k].name = ReverseNameV4(target)
          /\ (target \in NameV6Targets /\ requests[k].type = "PTR")
                => IsReverseNameV6(requests[k].name, target)
          /\ target \notin NameV4Targets \cup NameV6Targets
                => requests[k].type # "PTR" /\ requests[k].name = target
    /\ Cardinality(RequestsFor("PTR")) <= 1

----------------------------------------------------------------------------
(* The two copies of performDNSLookups compared, checked under SpecCopies. *)

\* the DoH requests of a list, as the set of their query names and types
Sent(reqs) == {<<reqs[k].name, reqs[k].type>> : k \in 1..Len(reqs)}

\* C24: on the same target, type list and upstream behaviour the copy of
\* worker.js and the copy of part_000 have sent the same set of DoH requests,
\* and when the call of worker.js returns, so does the call of part_000 (all
\* of its callbacks have fulfilled), with the same mapping
C24_CopiesEquivalent ==
    /\ Sent(requests) = Sent(twin.requests)
    /\ pc = "returned"
          => /\ \A i \in Idxs : twin.lookups[i] \in Settled
             /\ twin.results = results

\* "1.2.3.4" with <<"TXT", "PTR">>: TXT got a non-success status, which one
\* copy handles by return and the other by throw, PTR got an answer
C24_Witness ==
    /\ pc = "returned"
    /\ target = <<"1", ".", "2", ".", "3", ".", "4">>
    /\ dnsTypes = <<"TXT", "PTR">>
    /\ upstream[1].kind = "status" /\ upstream[2].kind = "answer"
    /\ results["TXT"] = <<>> /\ twin.results["TXT"] = <<>>
    /\ twin.results["PTR"] = upstream[2].answer
    /\ Len(twin.requests) = 2

\* the records that carry an address; c1 is a CNAME record
AddressRecords == {"r1", "r2"}

\* the address records of the entry of type ty, in their order
Addresses(ty) == SelectSeq(results[ty], LAMBDA r : r \in AddressRecords)

\* C25: for a domain target in worker.js, ipapi.is is asked about the address
\* of the first A record of the DNS results, else of the first AAAA record,
\* and about the domain itself only when there is neither; a value other than
\* the target is always an address taken from an A or AAAA record
C25_IpapiAsksResolvedAddress ==
    (/\ http.variant = "worker"
     /\ http.target \in DomainNames
     /\ http.pc \in {"awaitIpapi", "responded"})
        => LET q == http.ext["ipapi"].q
           IN  /\ q = IF Addresses("A") # <<>> THEN dataOf(Addresses("A")[1])
                      ELSE IF Addresses("AAAA") # <<>> THEN dataOf(Addresses("AAAA")[1])
                      ELSE http.target
               /\ q # http.target => q \in {dataOf(r) : r \in AddressRecords}

\* the characters each handler lets through
AllowedChars ==
    [v \in Variants |->
        Letters \cup Digits \cup (IF v = "worker" THEN {".", ":", "-"} ELSE {".", "-"})]

\* C26: a request to /api/analyze whose target is missing or empty, or holds a
\* character outside the allowed set of the handler that serves it, is
\* answered with status 400 and a JSON body made of an error, and neither a
\* DoH request nor a request to an external service has been sent
C26_BadTargetRejected ==
    (/\ http.pc = "responded"
     /\ http.variant \in Variants
     /\ \/ http.target = <<>>
        \/ \E k \in 1..Len(http.target) : http.target[k] \notin AllowedChars[http.variant])
        => /\ http.resp.status = 400
           /\ http.resp.keys = {"error"}
           /\ http.resp.error \in {"target required", "Invalid target format"}
           /\ pc = "idle" /\ requests = <<>>
           /\ http.ext = <<>>

\* worker.js has answered "a_b" with 400 "Invalid target format"
C26_Witness ==
    /\ http.pc = "responded"
    /\ http.variant = "worker"
    /\ http.target = <<"a", "_", "b">>
    /\ http.resp.status = 400
    /\ http.resp.error = "Invalid target format"
    /\ requests = <<>>

----------------------------------------------------------------------------
(* The search history, checked under SpecHistory.                          *)

NoDuplicates(h) == \A i, j \in 1..Len(h) : i # j => h[i] # h[j]

\* the entries stand in the order of their last save, the latest first
InSaveOrder(h) ==
    /\ \A i \in 1..Len(h) : h[i] \in DOMAIN ui.lastSave
    /\ \A i, j \in 1..Len(h) : i < j => ui.lastSave[h[i]] > ui.lastSave[h[j]]

\* the query saved last since the history was cleared
LatestSaved == CHOOSE q \in DOMAIN ui.lastSave :
                  \A r \in DOMAIN ui.lastSave : ui.lastSave[r] <= ui.lastSave[q]

HistoryWellFormed ==
    /\ NoDuplicates(ui.history)
    /\ Len(ui.history) <= 20
    /\ InSaveOrder(ui.history)
    /\ DOMAIN ui.lastSave # {} => ui.history # <<>> /\ ui.history[1] = LatestSaved

\* a save of a query the history holds moves it to the top, the length kept
SaveOfPresentMovesToTop ==
    (/\ ui'.clock = ui.clock + 1
     /\ \E i \in 1..Len(ui.history) : ui.history[i] = ui'.saved)
        => /\ Len(ui'.history) = Len(ui.history)
           /\ ui'.history[1] = ui'.saved

\* C27: after any sequence of saves and clears the stored history has no
\* duplicate, holds at most 20 entries, and lists the saved queries in the
\* order of their last save, the latest at position 0; a save of a query
\* that is already there moves it to the top and keeps the length
C27_HistoryBounded == []HistoryWellFormed /\ [][SaveOfPresentMovesToTop]_vars

\* a full history 20..1 got 21 saved (1 fell off), and then its oldest
\* remaining entry 2 once more, which came to the top
C27_Witness ==
    /\ Len(ui.history) = 20
    /\ ui.base = 20 /\ ui.clock = 22
    /\ ui.history[1] = 2 /\ ui.history[2] = 21 /\ ui.history[20] = 3

----------------------------------------------------------------------------
(* The page of the front-end, checked under SpecPage.                      *)

PageRuns == 1..Len(ui.runs)

\* run r handles its response in this step
Settles(r) == ui.runs[r].pc # "done" /\ ui'.runs[r].pc = "done"

\* a response that gives nothing to show: the request failed, the body is
\* not JSON, the status is an error, or the body holds neither DNS records
\* nor IP info
NothingToShow(resp) ==
    \/ resp.kind \in {"neterr", "badjson", "status"}
    \/ resp.kind = "data" /\ ~resp.hasDns /\ resp.info # "ok"

HistoryKeptOnFailure ==
    (\E r \in PageRuns : Settles(r) /\ NothingToShow(ui'.last))
        => /\ ui'.history = ui.history
           /\ ui'.errorMsg
           /\ ~ui'.resultsDiv

HistoryGrowsOnRender ==
    (ui'.history # ui.history /\ ui'.history # <<>>)
        => \E r \in PageRuns :
              /\ Settles(r)
              /\ ui'.runs[r].outcome = "results"
              /\ ui'.rendered = r
              /\ ui'.resultsDiv
              /\ ui'.history[1] = ui.runs[r].target

\* C28: a target is put into the search history only by a run of
\* handleAnalyze that succeeded and rendered its results; a run whose
\* request failed, whose response has an error status, or whose response
\* holds neither DNS records nor IP info leaves the history as it was and
\* shows the error message, not the results
C28_HistoryOnlyAfterSuccess ==
    [][HistoryKeptOnFailure /\ HistoryGrowsOnRender]_vars

InFlight == \E r \in PageRuns : ui.runs[r].pc # "done"

\* C29: in every interleaving of handleAnalyze runs the button is disabled
\* and the loader shown while a request of some run is in flight, and the
\* button is enabled once every started run has finished
C29_ButtonFollowsRequests ==
    /\ InFlight => ui.btnDisabled /\ ui.btnLoader
    /\ (ui.runs # <<>> /\ ~InFlight) => ~ui.btnDisabled /\ ~ui.btnLoader

\* what the page shows is the outcome of run r
ShowsOutcomeOf(r) ==
    IF ui.runs[r].outcome = "results"
    THEN ui.resultsDiv /\ ui.rendered = r /\ ~ui.errorMsg
    ELSE ui.errorMsg /\ ui.errorOf = r /\ ~ui.resultsDiv

\* C30: in every interleaving of overlapping handleAnalyze runs the error
\* message and the results panel are never visible together, and when all
\* runs have finished the page shows the outcome of the run started last
C30_LatestOutcomeVisible ==
    /\ ~(ui.errorMsg /\ ui.resultsDiv)
    /\ (ui.runs # <<>> /\ ~InFlight) => ShowsOutcomeOf(Len(ui.runs))

====
